---------------------------- MODULE Spec2Model ----------------------------
(***************************************************************************)
(* A model of the RAG chat backend: the retrieval ranker                   *)
(* (RAGRetrievalService.postProcessResults), the conversation context      *)
(* manager (GeminiService.manageConversationContext), the context-need     *)
(* gate (RAGChatService.shouldUseRAGContext), the filter builder           *)
(* (RAGRetrievalService.buildQdrantFilters), the text chunker              *)
(* (TextPreprocessor.chunkArticle), the query normaliser                   *)
(* (RAGRetrievalService.preprocessQuery) and the POST /api/chat and        *)
(* GET /api/chat/:sessionId/history handlers with their Redis session      *)
(* store.                                                                  *)
(*                                                                         *)
(* Text is modelled as a sequence of one-character strings, so that        *)
(* splitting, lower-casing and substring search are computed as the        *)
(* JavaScript code computes them.                                          *)
(***************************************************************************)
EXTENDS Integers, Sequences, FiniteSets, TLC

VARIABLES
    results,          \* ranker: the caller's hits array (sorted in place)
    hitsAtCall,       \* ranker: the hits as they were when the call was made
    rankOptions,      \* ranker: { targetCount, diversityThreshold, includeMetadata }
    diverseResults,   \* ranker: the value postProcessResults returned
    rankPc,           \* ranker: "call" before the call, "returned" after it
    ctxMessages,      \* context manager: the caller's messages array
    ctxAtCall,        \* context manager: the messages as they were at the call
    ctxMaxTokens,     \* context manager: the token budget passed
    ctxResult,        \* context manager: { messages, totalTokens, trimmedCount }
    ctxPc,            \* context manager: "call" or "returned"
    intentMessage,    \* context-need gate: the userMessage argument
    intentHistory,    \* context-need gate: the conversationHistory argument
    needsRAGContext,  \* context-need gate: the value returned
    intentPc,         \* context-need gate: "call" or "returned"
    ragChatInitialized, \* chat route: the flag set when initialize() resolved
    sessionHash,      \* Redis: the hash session:<id>
    messagesList,     \* Redis: the list messages:<id>
    rq,               \* chat route: per request, its position and local variables
    filters,          \* filter builder: the filters argument
    qdrantFilters,    \* filter builder: the value returned (<<>> is null)
    filterPc,         \* filter builder: "call" or "returned"
    article,          \* chunker: the article given to chunkArticle
    preprocessor,     \* chunker: the TextPreprocessor and its options
    chunks,           \* chunker: the chunks chunkArticle returned
    contentChunks,    \* chunker: the pieces chunkByParagraphs returned
    chunkPc,          \* chunker: "call", "returned" or "paragraphs"
    query,            \* normaliser: the query given
    processedQuery,   \* normaliser: the value the latest run returned
    processedOnce,    \* normaliser: the value the first run returned
    normRuns,         \* normaliser: the runs made (-1 when not in use)
    client,           \* test client: its position, its turns, the history it read
    historyRq,        \* history route: the position and locals of the request
    enhanceMessage,   \* the userMessage given to enhanceQueryWithContext
    enhanceHistory,   \* the conversationHistory given to it
    enhancedQuery,    \* the query it returned
    enhancePc,        \* "idle", "call" or "returned"
    snippetContent,   \* the content given to generateSnippet
    snippetQuery,     \* the query given to it
    snippetMaxLength, \* the maxLength given to it
    snippetAnchor,    \* bestPosition at the return
    snippetText,      \* the excerpt it returned
    snippetPc,        \* "idle", "call" or "returned"
    searchCache,      \* search cache: the values stored in Redis, by cache key
    search,           \* search: the position, options and result of the call
    searchCount,      \* search: the calls made
    embed,            \* embedding call: its position, retry count, errors, waits and the response
    pipeline,         \* embedding pipeline: the position, options and locals of the run
    checkpointFile,   \* embedding pipeline: embedding_checkpoint.json
    vectorStore,      \* embedding pipeline: the chunks inserted into Qdrant
    pipelineRuns,     \* embedding pipeline: the runs started
    refresh,          \* daily refresh: the position and the locals of the run
    articlesFile,     \* daily refresh: scraped_articles.json, the day of each article
    today,            \* daily refresh: the day it is
    refreshRuns,      \* daily refresh: the runs started
    deleteRq          \* delete route: the position and locals of the request

rankVars == <<results, hitsAtCall, rankOptions, diverseResults, rankPc>>

ctxVars == <<ctxMessages, ctxAtCall, ctxMaxTokens, ctxResult, ctxPc>>

intentVars == <<intentMessage, intentHistory, needsRAGContext, intentPc>>

chatVars == <<ragChatInitialized, sessionHash, messagesList, rq>>

filterVars == <<filters, qdrantFilters, filterPc>>

chunkVars == <<article, preprocessor, chunks, contentChunks, chunkPc>>

normVars == <<query, processedQuery, processedOnce, normRuns>>

turnVars == <<client, historyRq>>

enhanceVars == <<enhanceMessage, enhanceHistory, enhancedQuery, enhancePc>>

snippetVars == <<snippetContent, snippetQuery, snippetMaxLength, snippetAnchor, snippetText, snippetPc>>

searchVars == <<searchCache, search, searchCount>>

embedVars == <<embed>>

pipelineVars == <<pipeline, checkpointFile, vectorStore, pipelineRuns>>

refreshVars == <<refresh, articlesFile, today, refreshRuns>>

deleteVars == <<deleteRq>>

vars == <<rankVars, ctxVars, intentVars, chatVars, filterVars, chunkVars, normVars, turnVars, enhanceVars, snippetVars, searchVars, embedVars, pipelineVars, refreshVars, deleteVars>>

\* an absent (undefined) text: a one-element tuple no text equals
Undefined == <<"undefined">>

-----------------------------------------------------------------------------
(* Text helpers: String.prototype.toLowerCase, split(/\s+/), includes.      *)

UpperCase == <<"A","B","C","D","E","F","G","H","I","J","K","L","M",
               "N","O","P","Q","R","S","T","U","V","W","X","Y","Z">>

LowerCase == <<"a","b","c","d","e","f","g","h","i","j","k","l","m",
               "n","o","p","q","r","s","t","u","v","w","x","y","z">>

LowerChar(c) ==
    IF \E i \in 1..Len(UpperCase) : UpperCase[i] = c
    THEN LowerCase[CHOOSE i \in 1..Len(UpperCase) : UpperCase[i] = c]
    ELSE c

toLowerCase(s) == [i \in 1..Len(s) |-> LowerChar(s[i])]

IsSpace(c) == c \in {" ", "\t", "\n"}

RECURSIVE SkipSpaces(_, _)
SkipSpaces(s, i) ==
    IF i <= Len(s) /\ IsSpace(s[i]) THEN SkipSpaces(s, i + 1) ELSE i

\* s.split(/\s+/): the pieces between maximal runs of whitespace; leading or
\* trailing whitespace yields an empty first or last piece, "" yields <<"">>.
RECURSIVE SplitFrom(_, _, _)
SplitFrom(s, i, cur) ==
    IF i > Len(s) THEN <<cur>>
    ELSE IF IsSpace(s[i])
         THEN <<cur>> \o SplitFrom(s, SkipSpaces(s, i), <<>>)
         ELSE SplitFrom(s, i + 1, Append(cur, s[i]))

SplitWhitespace(s) == SplitFrom(s, 1, <<>>)

SeqToSet(q) == { q[i] : i \in 1..Len(q) }

\* t occurs in s at position i (1-based)
OccursAt(s, t, i) ==
    /\ i >= 1
    /\ i + Len(t) - 1 <= Len(s)
    /\ \A k \in 1..Len(t) : s[i + k - 1] = t[k]

\* String.prototype.includes
Includes(s, t) == \E i \in 1..(Len(s) - Len(t) + 1) : OccursAt(s, t, i)

\* array.slice(-n): the last n elements
SliceLast(q, n) == SubSeq(q, IF Len(q) > n THEN Len(q) - n + 1 ELSE 1, Len(q))

\* the characters "." of a regular expression does not match
IsLineTerminator(c) == c \in {"\n", "\r"}

\* an unanchored regular expression piece1.*piece2.*...: the pieces occur in
\* this order from position `from` on, with no line terminator in the gaps
\* that ".*" spans
RECURSIVE MatchesPieces(_, _, _, _)
MatchesPieces(s, pieces, from, first) ==
    IF pieces = <<>> THEN TRUE
    ELSE \E i \in from..(Len(s) - Len(Head(pieces)) + 1) :
            /\ OccursAt(s, Head(pieces), i)
            /\ first \/ \A g \in from..(i - 1) : ~IsLineTerminator(s[g])
            /\ MatchesPieces(s, Tail(pieces), i + Len(Head(pieces)), FALSE)

\* RegExp.prototype.test for a pattern alt1|alt2|... with the i flag
RegexTest(pattern, s) ==
    \E a \in 1..Len(pattern) :
        MatchesPieces(toLowerCase(s), pattern[a], 1, TRUE)

-----------------------------------------------------------------------------
(* The ranker: RAGRetrievalService.postProcessResults.                      *)

\* Scores are integers in units of 10^-5; a formatted score (toFixed(4)) is
\* an integer in units of 10^-4.  Thresholds are integers in units of 10^-3.
ThresholdScale == 1000

\* calculateStringSimilarity: |set1 \cap set2| / |set1 \cup set2| over the
\* whitespace-split words, kept as the pair <<numerator, denominator>>.
\* a variant dividing by the smaller word set (overlap coefficient)
calculateStringSimilarity_Overlap(str1, str2) ==
    LET set1 == SeqToSet(SplitWhitespace(str1))
        set2 == SeqToSet(SplitWhitespace(str2))
        n1   == Cardinality(set1)
        n2   == Cardinality(set2)
    IN  <<Cardinality(set1 \cap set2), IF n1 < n2 THEN n1 ELSE n2>>

calculateStringSimilarity(str1, str2) ==
    LET set1 == SeqToSet(SplitWhitespace(str1))
        set2 == SeqToSet(SplitWhitespace(str2))
    IN  <<Cardinality(set1 \cap set2), Cardinality(set1 \cup set2)>>

\* similarity > threshold, for a similarity n/d and a threshold t/1000
ExceedsThreshold(sim, threshold) == sim[1] * ThresholdScale > threshold * sim[2]

\* a variant that compares titles without lower-casing them
TitleKey_CaseSensitive(hit) ==
    IF hit.title = Undefined THEN <<>> ELSE hit.title

\* result.payload?.title?.toLowerCase() || ''
TitleKey(hit) ==
    IF hit.title = Undefined THEN <<>> ELSE toLowerCase(hit.title)

\* parseFloat(score.toFixed(4)): round to 4 decimals, halves up
ToFixed4(score) == (score + 5) \div 10

\* formatted.metadata is present (a one-element sequence) only on request
formatSearchResult(result, includeMetadata) ==
    [ id       |-> result.id,
      score    |-> ToFixed4(result.score),
      metadata |-> IF includeMetadata THEN <<[title |-> result.title]>>
                                      ELSE <<>> ]

\* Array.prototype.sort((a, b) => b.score - a.score): stable, descending.
RECURSIVE InsertByScore(_, _)
InsertByScore(sorted, hit) ==
    IF sorted = <<>> THEN <<hit>>
    ELSE IF Head(sorted).score >= hit.score
         THEN <<Head(sorted)>> \o InsertByScore(Tail(sorted), hit)
         ELSE <<hit>> \o sorted

\* a variant that trusts the incoming order and does not sort
SortByScoreDesc_Trusting(hits) == hits

RECURSIVE SortByScoreDesc(_)
SortByScoreDesc(hits) ==
    IF hits = <<>> THEN <<>>
    ELSE InsertByScore(SortByScoreDesc(SubSeq(hits, 1, Len(hits) - 1)),
                       hits[Len(hits)])

\* a variant that takes an equal used title for the candidate itself
TooSimilar_SkipsEqual(title, usedTitles, diversityThreshold) ==
    \E usedTitle \in usedTitles \ {title} :
        ExceedsThreshold(calculateStringSimilarity(title, usedTitle),
                         diversityThreshold)

\* the test of the inner loop: some used title is more similar than allowed
TooSimilar(title, usedTitles, diversityThreshold) ==
    \E usedTitle \in usedTitles :
        ExceedsThreshold(calculateStringSimilarity(title, usedTitle),
                         diversityThreshold)

\* a variant whose loop breaks one accepted result too late
RECURSIVE DiversityLoop_OneMore(_, _, _, _, _)
DiversityLoop_OneMore(sorted, i, accepted, usedTitles, opts) ==
    IF i > Len(sorted) \/ Len(accepted) > opts.targetCount THEN accepted
    ELSE LET title == TitleKey(sorted[i])
         IN  IF TooSimilar(title, usedTitles, opts.diversityThreshold)
             THEN DiversityLoop_OneMore(sorted, i + 1, accepted, usedTitles, opts)
             ELSE DiversityLoop_OneMore(sorted, i + 1,
                      Append(accepted,
                             formatSearchResult(sorted[i], opts.includeMetadata)),
                      usedTitles \cup {title}, opts)

\* the for-loop of postProcessResults over the sorted hits from position i
RECURSIVE DiversityLoop(_, _, _, _, _)
DiversityLoop(sorted, i, accepted, usedTitles, opts) ==
    IF i > Len(sorted) \/ Len(accepted) >= opts.targetCount THEN accepted
    ELSE LET title == TitleKey(sorted[i])
         IN  IF TooSimilar(title, usedTitles, opts.diversityThreshold)
             THEN DiversityLoop(sorted, i + 1, accepted, usedTitles, opts)
             ELSE DiversityLoop(sorted, i + 1,
                      Append(accepted,
                             formatSearchResult(sorted[i], opts.includeMetadata)),
                      usedTitles \cup {title}, opts)

\* a missing (undefined or null) results argument; no hit has id 0
MissingHits == <<[id |-> 0, score |-> 0, title |-> Undefined]>>

\* the value returned by postProcessResults(hits, opts)
postProcessResults(hits, opts) ==
    IF hits = MissingHits \/ hits = <<>> THEN <<>>
    ELSE DiversityLoop(SortByScoreDesc(hits), 1, <<>>, {}, opts)

\* the hits array after the call: sorted in place unless it was missing or
\* empty
SortedInPlace(hits) ==
    IF hits = MissingHits \/ hits = <<>> THEN hits ELSE SortByScoreDesc(hits)

-----------------------------------------------------------------------------
(* Inputs of the ranker.                                                    *)

MaxHits == 3
MaxTarget == 3

T_FedRaisesRates ==
    <<"F","e","d"," ","r","a","i","s","e","s"," ","r","a","t","e","s">>
T_FedRaisesInterestRates ==
    <<"F","e","d"," ","r","a","i","s","e","s"," ","i","n","t","e","r","e","s","t"," ","r","a","t","e","s">>
T_StockMarketFalls ==
    <<"S","t","o","c","k"," ","m","a","r","k","e","t"," ","f","a","l","l","s">>
T_FedRaisesRatesUpper ==
    <<"F","E","D"," ","R","A","I","S","E","S"," ","R","A","T","E","S">>
T_StockMarketFallsSpaced ==
    <<" ","S","t","o","c","k"," "," ","m","a","r","k","e","t"," ","f","a","l","l","s">>

HitPool ==
    { [id |-> 1, score |-> 90000, title |-> T_FedRaisesRates],
      [id |-> 2, score |-> 85000, title |-> T_FedRaisesInterestRates],
      [id |-> 3, score |-> 80000, title |-> T_StockMarketFalls],
      [id |-> 4, score |-> 85000, title |-> T_FedRaisesRatesUpper],
      [id |-> 5, score |-> 84996, title |-> Undefined],
      [id |-> 6, score |-> 90004, title |-> T_StockMarketFallsSpaced] }

ThresholdPool == {0, 500, 800, 1000}

\* lists of distinct hits, in any order, of length 0..MaxHits
HitLists ==
    { q \in UNION { [1..n -> HitPool] : n \in 0..MaxHits } :
        \A i, j \in 1..Len(q) : i # j => q[i].id # q[j].id }

RankOptionsPool ==
    [ targetCount : 0..MaxTarget,
      diversityThreshold : ThresholdPool,
      includeMetadata : BOOLEAN ]

RankStart ==
    /\ results \in HitLists \cup {MissingHits}
    /\ hitsAtCall = results
    /\ rankOptions \in RankOptionsPool
    /\ diverseResults = <<>>
    /\ rankPc = "call"

\* the ranker when it is not the component under study
RankIdle ==
    /\ results = <<>>
    /\ hitsAtCall = <<>>
    /\ rankOptions = [targetCount |-> 0, diversityThreshold |-> 800,
                      includeMetadata |-> TRUE]
    /\ diverseResults = <<>>
    /\ rankPc = "idle"

\* one call of postProcessResults(results, rankOptions)
PostProcessResults ==
    /\ rankPc = "call"
    /\ diverseResults' = postProcessResults(results, rankOptions)
    /\ results' = SortedInPlace(results)
    /\ rankPc' = "returned"
    /\ UNCHANGED <<hitsAtCall, rankOptions>>
    /\ UNCHANGED <<ctxVars, intentVars, chatVars, filterVars, chunkVars, normVars, turnVars, enhanceVars, snippetVars, searchVars, embedVars, pipelineVars, refreshVars, deleteVars>>

-----------------------------------------------------------------------------
(* The conversation context manager: GeminiService.manageConversationContext *)

\* a variant that rounds down
estimateTokens_Floor(text) ==
    IF text = Undefined \/ text = <<>> THEN 0 ELSE Len(text) \div 4

\* estimateTokens: 0 for a missing or empty text, else Math.ceil(length / 4)
estimateTokens(text) ==
    IF text = Undefined \/ text = <<>> THEN 0 ELSE (Len(text) + 3) \div 4

\* a variant that skips a message that does not fit and goes on to older ones
RECURSIVE ManageLoop_Skipping(_, _, _, _, _)
ManageLoop_Skipping(messages, i, totalTokens, managedMessages, maxTokens) ==
    IF i < 1 THEN [messages |-> managedMessages, totalTokens |-> totalTokens]
    ELSE LET messageTokens == estimateTokens(messages[i].content)
         IN  IF totalTokens + messageTokens <= maxTokens
             THEN ManageLoop_Skipping(messages, i - 1,
                      totalTokens + messageTokens,
                      <<messages[i]>> \o managedMessages, maxTokens)
             ELSE ManageLoop_Skipping(messages, i - 1, totalTokens,
                      managedMessages, maxTokens)

\* the for-loop of manageConversationContext, from index i down to the first
\* message (indices are 1-based here); it breaks at the first message that
\* does not fit
RECURSIVE ManageLoop(_, _, _, _, _)
ManageLoop(messages, i, totalTokens, managedMessages, maxTokens) ==
    IF i < 1 THEN [messages |-> managedMessages, totalTokens |-> totalTokens]
    ELSE LET messageTokens == estimateTokens(messages[i].content)
         IN  IF totalTokens + messageTokens <= maxTokens
             THEN ManageLoop(messages, i - 1, totalTokens + messageTokens,
                             <<messages[i]>> \o managedMessages, maxTokens)
             ELSE [messages |-> managedMessages, totalTokens |-> totalTokens]

manageConversationContext(messages, maxTokens) ==
    LET r == ManageLoop(messages, Len(messages), 0, <<>>, maxTokens)
    IN  [ messages     |-> r.messages,
          totalTokens  |-> r.totalTokens,
          trimmedCount |-> Len(messages) - Len(r.messages) ]

\* a variant that consumes the caller's array while scanning it
MessagesAfterManage_Consuming(messages, maxTokens) ==
    SubSeq(messages, 1,
           Len(messages) - Len(manageConversationContext(messages, maxTokens).messages))

\* the caller's array after the call: the function only reads it
MessagesAfterManage(messages, maxTokens) == messages

-----------------------------------------------------------------------------
(* Inputs of the context manager.                                           *)

MaxHistory == 4
MaxBudget == 6

X_Hi == <<"H","i">>
X_Hello == <<"H","e","l","l","o">>
X_GoodDay == <<"G","o","o","d"," ","d","a","y","!">>

CtxMessagePool ==
    { [role |-> "user",      content |-> X_Hi],
      [role |-> "assistant", content |-> X_Hello],
      [role |-> "user",      content |-> X_GoodDay],
      [role |-> "assistant", content |-> <<>>],
      [role |-> "user",      content |-> X_Hello] }

CtxHistories == UNION { [1..n -> CtxMessagePool] : n \in 0..MaxHistory }

NoCtxResult == [messages |-> <<>>, totalTokens |-> 0, trimmedCount |-> 0]

CtxStart ==
    /\ ctxMessages \in CtxHistories
    /\ ctxAtCall = ctxMessages
    /\ ctxMaxTokens \in 0..MaxBudget
    /\ ctxResult = NoCtxResult
    /\ ctxPc = "call"

\* the context manager when it is not the component under study
CtxIdle ==
    /\ ctxMessages = <<>>
    /\ ctxAtCall = <<>>
    /\ ctxMaxTokens = 0
    /\ ctxResult = NoCtxResult
    /\ ctxPc = "idle"

\* one call of manageConversationContext(ctxMessages, ctxMaxTokens)
ManageConversationContext ==
    /\ ctxPc = "call"
    /\ ctxResult' = manageConversationContext(ctxMessages, ctxMaxTokens)
    /\ ctxMessages' = MessagesAfterManage(ctxMessages, ctxMaxTokens)
    /\ ctxPc' = "returned"
    /\ UNCHANGED <<ctxAtCall, ctxMaxTokens>>
    /\ UNCHANGED <<rankVars, intentVars, chatVars, filterVars, chunkVars, normVars, turnVars, enhanceVars, snippetVars, searchVars, embedVars, pipelineVars, refreshVars, deleteVars>>

-----------------------------------------------------------------------------
(* The context-need gate: RAGChatService.shouldUseRAGContext.               *)

\* informationKeywords
informationKeywords ==
    << <<"n","e","w","s">>,
       <<"l","a","t","e","s","t">>,
       <<"r","e","c","e","n","t">>,
       <<"u","p","d","a","t","e">>,
       <<"w","h","a","t"," ","h","a","p","p","e","n","e","d">>,
       <<"t","e","l","l"," ","m","e"," ","a","b","o","u","t">>,
       <<"i","n","f","o","r","m","a","t","i","o","n">>,
       <<"d","e","t","a","i","l","s">>,
       <<"w","h","e","n"," ","d","i","d">>,
       <<"w","h","e","r","e"," ","i","s">>,
       <<"w","h","o"," ","i","s">>,
       <<"h","o","w"," ","m","a","n","y">>,
       <<"e","x","p","l","a","i","n">>,
       <<"d","e","s","c","r","i","b","e">>,
       <<"s","u","m","m","a","r","y">>,
       <<"r","e","p","o","r","t">>,
       <<"a","r","t","i","c","l","e">>,
       <<"s","t","o","r","y">>,
       <<"t","e","c","h","n","o","l","o","g","y">>,
       <<"b","u","s","i","n","e","s","s">>,
       <<"p","o","l","i","t","i","c","s">>,
       <<"e","c","o","n","o","m","y">>,
       <<"i","n","d","i","a">>,
       <<"i","n","d","i","a","n">> >>

\* questionPatterns: each pattern is a list of alternatives, each alternative
\* the list of literal pieces that ".*" separates
questionPatterns ==
    << << << <<"w","h","a","t"," ","i","s">> >>,
          << <<"w","h","a","t"," ","a","r","e">> >>,
          << <<"w","h","a","t"," ","w","a","s">> >>,
          << <<"w","h","a","t"," ","w","e","r","e">> >> >>,
       << << <<"w","h","o"," ","i","s">> >>,
          << <<"w","h","o"," ","a","r","e">> >>,
          << <<"w","h","o"," ","w","a","s">> >>,
          << <<"w","h","o"," ","w","e","r","e">> >> >>,
       << << <<"w","h","e","n"," ","d","i","d">> >>,
          << <<"w","h","e","n"," ","w","a","s">> >>,
          << <<"w","h","e","n"," ","w","i","l","l">> >> >>,
       << << <<"w","h","e","r","e"," ","i","s">> >>,
          << <<"w","h","e","r","e"," ","a","r","e">> >>,
          << <<"w","h","e","r","e"," ","w","a","s">> >> >>,
       << << <<"h","o","w"," ","m","a","n","y">> >>,
          << <<"h","o","w"," ","m","u","c","h">> >>,
          << <<"h","o","w"," ","o","f","t","e","n">> >> >>,
       << << <<"t","e","l","l"," ","m","e">> >>,
          << <<"s","h","o","w"," ","m","e">> >>,
          << <<"e","x","p","l","a","i","n">> >> >>,
       << << <<"l","a","t","e","s","t">>, <<"n","e","w","s">> >>,
          << <<"r","e","c","e","n","t">>, <<"n","e","w","s">> >> >>,
       << << <<"w","h","a","t">>, <<"h","a","p","p","e","n","e","d">> >>,
          << <<"w","h","a","t">>, <<"h","a","p","p","e","n","i","n","g">> >> >> >>

\* hasInfoKeywords: some keyword occurs in the lower-cased text
HasInfoKeywords(text) ==
    \E k \in 1..Len(informationKeywords) :
        Includes(toLowerCase(text), informationKeywords[k])

\* hasQuestionPattern: some pattern matches the lower-cased message
HasQuestionPattern(text) ==
    \E p \in 1..Len(questionPatterns) :
        RegexTest(questionPatterns[p], toLowerCase(text))

\* a variant that takes the last 3 user turns of the history
RecentMessages_UserTurns(conversationHistory) ==
    SliceLast(SelectSeq(conversationHistory, LAMBDA m : m.role = "user"), 3)

\* recentMessages = conversationHistory.slice(-3)
RecentMessages(conversationHistory) == SliceLast(conversationHistory, 3)

\* contextSuggestsInfo
ContextSuggestsInfo(conversationHistory) ==
    /\ Len(conversationHistory) > 0
    /\ \E i \in 1..Len(RecentMessages(conversationHistory)) :
          LET msg == RecentMessages(conversationHistory)[i]
          IN  msg.role = "user" /\ HasInfoKeywords(msg.content)

shouldUseRAGContext(userMessage, conversationHistory) ==
    \/ HasInfoKeywords(userMessage)
    \/ HasQuestionPattern(userMessage)
    \/ ContextSuggestsInfo(conversationHistory)

-----------------------------------------------------------------------------
(* Inputs of the context-need gate.                                         *)

MaxTurns == 4

M_HowAreYouToday ==
    <<"H","o","w"," ","a","r","e"," ","y","o","u"," ","t","o","d","a","y","?">>
M_WhatIsLatestNewsOnAI ==
    <<"W","h","a","t"," ","i","s"," ","t","h","e"," ","l","a","t","e","s","t"," ","n","e","w","s"," ","o","n"," ","A","I","?">>
M_Hello ==
    <<"h","e","l","l","o">>
M_TellMeMoreAboutThat ==
    <<"T","e","l","l"," ","m","e"," ","m","o","r","e"," ","a","b","o","u","t"," ","t","h","a","t">>
M_IndiaWins ==
    <<"I","n","d","i","a"," ","w","i","n","s">>
M_SoWhatJustHappened ==
    <<"S","o"," ","w","h","a","t"," ","j","u","s","t"," ","h","a","p","p","e","n","e","d">>
M_WhoAreYou ==
    <<"W","H","O"," ","A","R","E"," ","y","o","u">>
H_AnyNews ==
    <<"a","n","y"," ","n","e","w","s","?">>
H_TellMeMore ==
    <<"t","e","l","l"," ","m","e"," ","m","o","r","e">>
H_TheNewsIsGood ==
    <<"T","h","e"," ","n","e","w","s"," ","i","s"," ","g","o","o","d">>
H_Ok ==
    <<"o","k">>

IntentMessagePool ==
    { M_HowAreYouToday, M_WhatIsLatestNewsOnAI, M_Hello, M_TellMeMoreAboutThat,
      M_IndiaWins, M_SoWhatJustHappened, M_WhoAreYou }

IntentTurnPool ==
    { [role |-> "user",      content |-> H_AnyNews],
      [role |-> "user",      content |-> H_TellMeMore],
      [role |-> "assistant", content |-> H_TheNewsIsGood],
      [role |-> "assistant", content |-> H_Ok] }

IntentHistories == UNION { [1..n -> IntentTurnPool] : n \in 0..MaxTurns }

IntentStart ==
    /\ intentMessage \in IntentMessagePool
    /\ intentHistory \in IntentHistories
    /\ needsRAGContext = FALSE
    /\ intentPc = "call"

\* the gate when it is not the component under study
IntentIdle ==
    /\ intentMessage = <<>>
    /\ intentHistory = <<>>
    /\ needsRAGContext = FALSE
    /\ intentPc = "idle"

\* one call of shouldUseRAGContext(intentMessage, intentHistory)
ShouldUseRAGContext ==
    /\ intentPc = "call"
    /\ needsRAGContext' = shouldUseRAGContext(intentMessage, intentHistory)
    /\ intentPc' = "returned"
    /\ UNCHANGED <<intentMessage, intentHistory>>
    /\ UNCHANGED <<rankVars, ctxVars, chatVars, filterVars, chunkVars, normVars, turnVars, enhanceVars, snippetVars, searchVars, embedVars, pipelineVars, refreshVars, deleteVars>>

-----------------------------------------------------------------------------
(* The filter builder: RAGRetrievalService.buildQdrantFilters.              *)

\* a string-valued property that is not set
NotSet == "<not set>"

\* the values of filters.sources and filters.categories: not set, an array
\* (which is truthy also when empty), or a string instead of an array
ListValue(kind, items) == [kind |-> kind, items |-> items]

NoList == ListValue("undefined", <<>>)

IsArray(v) == v.kind = "array"

\* JavaScript truthiness of the values a filters property takes here
TruthyList(v) == v.kind = "array" \/ (v.kind = "string" /\ v.items # <<"">>)

TruthyString(s) == s # NotSet /\ s # ""

\* filters is missing (given = FALSE) or an object with these properties;
\* other marks that it has a property the builder does not know
NoFilters ==
    [ given |-> FALSE, sources |-> NoList, categories |-> NoList,
      dateFrom |-> NotSet, dateTo |-> NotSet, contentType |-> NotSet,
      other |-> FALSE ]

\* Object.keys(filters).length
KeyCount(f) ==
    (IF f.sources # NoList THEN 1 ELSE 0) + (IF f.categories # NoList THEN 1 ELSE 0)
    + (IF f.dateFrom # NotSet THEN 1 ELSE 0) + (IF f.dateTo # NotSet THEN 1 ELSE 0)
    + (IF f.contentType # NotSet THEN 1 ELSE 0) + (IF f.other THEN 1 ELSE 0)

\* a clause of qdrantFilter.must: { key, match: { any } }, { key, range:
\* { gte, lte } } or { key, match: { value } }
MatchAny(key, list) ==
    [key |-> key, kind |-> "any", any |-> list, gte |-> NotSet, lte |-> NotSet,
     value |-> NotSet]

Range(key, gte, lte) ==
    [key |-> key, kind |-> "range", any |-> <<>>, gte |-> gte, lte |-> lte,
     value |-> NotSet]

MatchValue(key, value) ==
    [key |-> key, kind |-> "value", any |-> <<>>, gte |-> NotSet, lte |-> NotSet,
     value |-> value]

\* if (filters.sources && Array.isArray(filters.sources)) must.push(...)
ListClause(key, v) ==
    IF TruthyList(v) /\ IsArray(v) THEN <<MatchAny(key, v.items)>> ELSE <<>>

\* if (filters.dateFrom || filters.dateTo) must.push(dateFilter)
DateClause(f) ==
    IF TruthyString(f.dateFrom) \/ TruthyString(f.dateTo)
    THEN <<Range("published_date",
                 IF TruthyString(f.dateFrom) THEN f.dateFrom ELSE NotSet,
                 IF TruthyString(f.dateTo) THEN f.dateTo ELSE NotSet)>>
    ELSE <<>>

\* if (filters.contentType) must.push(...)
TypeClause(f) ==
    IF TruthyString(f.contentType)
    THEN <<MatchValue("type", f.contentType)>> ELSE <<>>

\* the value returned: <<>> for null, else the one filter object
buildQdrantFilters(f) ==
    IF ~f.given \/ KeyCount(f) = 0 THEN <<>>
    ELSE LET must == ListClause("source", f.sources)
                     \o ListClause("category", f.categories)
                     \o DateClause(f) \o TypeClause(f)
         IN  IF Len(must) > 0 THEN <<[must |-> must]>> ELSE <<>>

\* the filters a caller may pass
ListValues ==
    { NoList, ListValue("array", <<>>), ListValue("array", <<"bbc">>),
      ListValue("array", <<"bbc", "cnn">>), ListValue("string", <<"bbc">>) }

DateValues == {NotSet, "", "2024-01-01"}

TypeValues == {NotSet, "", "content"}

FiltersPool ==
    {NoFilters} \cup
    [ given : {TRUE}, sources : ListValues, categories : ListValues,
      dateFrom : DateValues, dateTo : DateValues, contentType : TypeValues,
      other : BOOLEAN ]

FilterStart ==
    /\ filters \in FiltersPool
    /\ qdrantFilters = <<>>
    /\ filterPc = "call"

\* the filter builder when it is not the component under study
FilterIdle ==
    /\ filters = NoFilters
    /\ qdrantFilters = <<>>
    /\ filterPc = "idle"

\* one call of buildQdrantFilters(filters)
BuildQdrantFilters ==
    /\ filterPc = "call"
    /\ qdrantFilters' = buildQdrantFilters(filters)
    /\ filterPc' = "returned"
    /\ UNCHANGED filters
    /\ UNCHANGED <<rankVars, ctxVars, intentVars, chatVars, chunkVars, normVars, turnVars, enhanceVars, snippetVars, searchVars, embedVars, pipelineVars, refreshVars, deleteVars>>

-----------------------------------------------------------------------------
(* The chat route: POST /api/chat over the Redis session store.             *)
(*                                                                         *)
(* JavaScript runs a handler without interruption between two awaits, so   *)
(* an action is one awaited call (a Redis command, a provider call)        *)
(* together with the synchronous code that follows it up to the next       *)
(* await.  All requests address the same session id.                       *)

NumRequests == 2

Requests == 1..NumRequests

\* MAX_CONVERSATION_HISTORY as configured for the deployment under study
\* (RedisService reads it from the environment; 50 when unset)
maxConversationHistory == 3

\* the lookback of processMessage: getChatHistory(sessionId, 10)
historyLookback == 10

conversationTokenLimit == 2000

maxMessageLength == 2000

defaultMaxContext == 3

maxTopK == 20

\* String.prototype.trim
RECURSIVE TrimEnd(_)
TrimEnd(s) ==
    IF s # <<>> /\ IsSpace(s[Len(s)]) THEN TrimEnd(SubSeq(s, 1, Len(s) - 1)) ELSE s

Trim(s) == LET i == SkipSpaces(s, 1) IN TrimEnd(SubSeq(s, i, Len(s)))

\* the texts that occur in a chat: request messages, the text the language
\* model returns, and the fixed texts of the code
X_PaddedNews == <<" ","a","n","y"," ","n","e","w","s","?"," ">>
X_Blank == <<" "," "," ">>
X_TooLong == [i \in 1..(maxMessageLength + 1) |-> "a"]
X_Answer ==
    <<"H","e","r","e"," ","i","s"," ","a","n"," ","a","n","s","w","e","r",".">>
X_TechnicalDifficulties ==
    <<"I","'","m"," ","e","x","p","e","r","i","e","n","c","i","n","g"," ","s","o","m","e"," ","t","e","c","h","n","i","c","a","l"," ","d","i","f","f","i","c","u","l","t","i","e","s","."," ","P","l","e","a","s","e"," ","t","r","y"," ","a","g","a","i","n"," ","l","a","t","e","r",".">>
X_StillInitializing ==
    <<"T","h","e"," ","A","I"," ","s","e","r","v","i","c","e"," ","i","s"," ","s","t","i","l","l"," ","i","n","i","t","i","a","l","i","z","i","n","g","."," ","P","l","e","a","s","e"," ","w","a","i","t"," ","a"," ","m","o","m","e","n","t"," ","a","n","d"," ","t","r","y"," ","a","g","a","i","n",".">>
fallbackNotice ==
    <<"\n","\n","*","N","o","t","e",":"," ","I"," ","d","o","n","'","t"," ","h","a","v","e"," ","s","p","e","c","i","f","i","c"," ","c","u","r","r","e","n","t"," ","n","e","w","s"," ","i","n","f","o","r","m","a","t","i","o","n"," ","a","b","o","u","t"," ","t","h","i","s"," ","t","o","p","i","c","."," ","M","y"," ","r","e","s","p","o","n","s","e"," ","i","s"," ","b","a","s","e","d"," ","o","n"," ","g","e","n","e","r","a","l"," ","k","n","o","w","l","e","d","g","e",".","*">>

\* a text is kept in the state by its key in this table
ChatTexts ==
    [ hello          |-> M_Hello,
      any_news       |-> H_AnyNews,
      padded_news    |-> X_PaddedNews,
      blank          |-> X_Blank,
      empty          |-> <<>>,
      missing        |-> Undefined,
      too_long       |-> X_TooLong,
      answer         |-> X_Answer,
      answer_notice  |-> X_Answer \o fallbackNotice,
      difficulties   |-> X_TechnicalDifficulties,
      initializing   |-> X_StillInitializing ]

ChatText(key) == ChatTexts[key]

KeyOf(text) == CHOOSE key \in DOMAIN ChatTexts : ChatTexts[key] = text

\* what a client may send as req.body.message
RequestMessages == {"hello", "padded_news", "blank", "empty", "missing", "too_long"}

\* what a client may send as options.maxContext (0 stands for leaving it out)
RequestMaxContexts == {0, 25}

\* the validation at the head of the handler: the error thrown, or "none"
ValidateMessage(message) ==
    IF message = Undefined \/ message = <<>> \/ Len(Trim(message)) = 0
    THEN "ValidationError"
    ELSE IF Len(message) > maxMessageLength THEN "ValidationError" ELSE "none"

\* a metadata field is "true", "false" or "absent"
NoMetadata ==
    [rag_used |-> "absent", fallback_used |-> "absent", model |-> "none",
     reason |-> "absent"]

\* `response` of the handler; made: it has been assigned
NoResponse == [content |-> "empty", metadata |-> NoMetadata, made |-> FALSE]

NoReply ==
    [sent |-> FALSE, success |-> FALSE, statusCode |-> 0, message |-> "empty",
     metadata |-> NoMetadata, processing_error |-> FALSE]

IdleRequest ==
    [ pc         |-> "idle",
      phase      |-> "first",
      message    |-> "empty",       \* req.body.message, by key
      count      |-> 0,             \* messageCount read by lLen
      topK       |-> 0,             \* searchOptions.topK
      contexts   |-> -1,            \* ragResults.contexts.length, -1: null
      gen        |-> "none",        \* the generation awaited
      response   |-> NoResponse,
      processingError |-> FALSE,    \* processingError is not null
      reply      |-> NoReply,
      appended   |-> {},            \* history: roles whose rPush was executed
      failed     |-> {},            \* history: collaborators that failed
      outcome    |-> "none",        \* history: how the response came about
      steps      |-> <<>> ]         \* history: pipeline steps started and ended

\* exists: the hash has fields
EmptySessionHash == [exists |-> FALSE, messageCount |-> 0]

ChatStart ==
    /\ ragChatInitialized = FALSE
    /\ sessionHash = EmptySessionHash
    /\ messagesList = <<>>
    /\ rq = [r \in Requests |-> IdleRequest]

\* the chat route when it is not the component under study
ChatIdle ==
    /\ ragChatInitialized = FALSE
    /\ sessionHash = EmptySessionHash
    /\ messagesList = <<>>
    /\ rq = [r \in Requests |-> IdleRequest]

\* errorHandler: the reply for an error that left the handler
errorHandler(err) ==
    [ sent       |-> TRUE,
      success    |-> FALSE,
      statusCode |-> IF err = "ValidationError" THEN 400
                     ELSE IF err = "NotFoundError" THEN 404 ELSE 500,
      message    |-> "empty",
      metadata   |-> NoMetadata,
      processing_error |-> FALSE ]

\* asyncHandler: an error thrown by the handler goes to errorHandler
Thrown(req, err, collaborator) ==
    [req EXCEPT !.pc = "done", !.reply = errorHandler(err),
                !.failed = @ \cup collaborator]

\* ragChatService.initialize() resolves.  A rejected initialize() leaves the
\* flag false for good, which is the behaviour in which this step never
\* happens.
RagChatInitialize ==
    /\ ~ragChatInitialized
    /\ ragChatInitialized' = TRUE
    /\ UNCHANGED <<sessionHash, messagesList, rq>>
    /\ UNCHANGED <<rankVars, ctxVars, intentVars, filterVars, chunkVars, normVars, turnVars, enhanceVars, snippetVars, searchVars, embedVars, pipelineVars, refreshVars, deleteVars>>

\* the handler up to its first await: validation, then getSession
Receive(r) ==
    /\ rq[r].pc = "idle"
    /\ \E message \in RequestMessages :
          LET req == [rq[r] EXCEPT !.message = message]
              err == ValidateMessage(ChatText(message))
          IN  rq' = [rq EXCEPT ![r] =
                        IF err # "none" THEN Thrown(req, err, {})
                        ELSE [req EXCEPT !.pc = "gs_hGetAll", !.phase = "first"]]
    /\ UNCHANGED <<ragChatInitialized, sessionHash, messagesList>>
    /\ UNCHANGED <<rankVars, ctxVars, intentVars, filterVars, chunkVars, normVars, turnVars, enhanceVars, snippetVars, searchVars, embedVars, pipelineVars, refreshVars, deleteVars>>

\* the message the handler stores for the phase of the request
UserMessage(r) ==
    [ req      |-> r,
      role     |-> "user",
      content  |-> KeyOf(Trim(ChatText(rq[r].message))),
      metadata |-> NoMetadata ]

AssistantMessage(r) ==
    [ req      |-> r,
      role     |-> "assistant",
      content  |-> rq[r].response.content,
      metadata |-> rq[r].response.metadata ]

MessageToAdd(r) ==
    IF rq[r].phase = "user" THEN UserMessage(r) ELSE AssistantMessage(r)

\* res.json({ success: true, data: { message: assistantMessage, ... } })
SuccessReply(r) ==
    [ sent       |-> TRUE,
      success    |-> TRUE,
      statusCode |-> 200,
      message    |-> AssistantMessage(r).content,
      metadata   |-> AssistantMessage(r).metadata,
      processing_error |-> rq[r].processingError ]

\* the handler once it holds a session: addMessage(userMessage)
AfterSessionReady_AssistantFirst(req) ==
    [req EXCEPT !.pc = "am_rPush", !.phase = "assistant"]

AfterSessionReady(req) == [req EXCEPT !.pc = "am_rPush", !.phase = "user"]

\* getSession: hGetAll.  No session: createSession on the first read, a
\* TypeError on updatedSession.messageCount on the last one.
GetSessionRead(r) ==
    /\ rq[r].pc = "gs_hGetAll"
    /\ \/ rq' = [rq EXCEPT ![r] =
                    IF sessionHash.exists
                    THEN [@ EXCEPT !.pc = "gs_touch"]
                    ELSE IF @.phase = "first"
                         THEN [@ EXCEPT !.pc = "cs_hSet"]
                         ELSE Thrown(@, "TypeError", {"session"})]
       \/ rq' = [rq EXCEPT ![r] = Thrown(@, "RedisError", {"session"})]
    /\ UNCHANGED <<ragChatInitialized, sessionHash, messagesList>>
    /\ UNCHANGED <<rankVars, ctxVars, intentVars, filterVars, chunkVars, normVars, turnVars, enhanceVars, snippetVars, searchVars, embedVars, pipelineVars, refreshVars, deleteVars>>

\* updateSessionActivity: hSet lastActivity (which creates the hash when it
\* is gone) and expire; an error is logged and swallowed
TouchedHash(ok) ==
    IF ok THEN [sessionHash EXCEPT !.exists = TRUE] ELSE sessionHash

\* getSession, after the read: updateSessionActivity, then back in the
\* handler: addMessage(user) on the first read, res.json on the last one
GetSessionTouch(r) ==
    /\ rq[r].pc = "gs_touch"
    /\ \E ok \in BOOLEAN : sessionHash' = TouchedHash(ok)
    /\ rq' = [rq EXCEPT ![r] =
                 IF @.phase = "first"
                 THEN AfterSessionReady(@)
                 ELSE [@ EXCEPT !.pc = "done", !.reply = SuccessReply(r)]]
    /\ UNCHANGED <<ragChatInitialized, messagesList>>
    /\ UNCHANGED <<rankVars, ctxVars, intentVars, filterVars, chunkVars, normVars, turnVars, enhanceVars, snippetVars, searchVars, embedVars, pipelineVars, refreshVars, deleteVars>>

CreatedSessionHash == [exists |-> TRUE, messageCount |-> 0]

\* createSession: hSet of all the fields (messageCount '0'), then expire;
\* either may fail
CreateSession(r) ==
    /\ rq[r].pc = "cs_hSet"
    /\ \/ /\ sessionHash' = CreatedSessionHash
          /\ rq' = [rq EXCEPT ![r] = AfterSessionReady(@)]
       \/ /\ rq' = [rq EXCEPT ![r] = Thrown(@, "RedisError", {"session"})]
          /\ \E written \in BOOLEAN :
               sessionHash' = IF written THEN CreatedSessionHash ELSE sessionHash
    /\ UNCHANGED <<ragChatInitialized, messagesList>>
    /\ UNCHANGED <<rankVars, ctxVars, intentVars, filterVars, chunkVars, normVars, turnVars, enhanceVars, snippetVars, searchVars, embedVars, pipelineVars, refreshVars, deleteVars>>

\* addMessage: rPush of the message
AddMessagePush(r) ==
    /\ rq[r].pc = "am_rPush"
    /\ \/ /\ messagesList' = Append(messagesList, MessageToAdd(r))
          /\ rq' = [rq EXCEPT ![r].pc = "am_lLen",
                              ![r].appended = @ \cup {rq[r].phase}]
       \/ /\ rq' = [rq EXCEPT ![r] = Thrown(@, "RedisError", {"session"})]
          /\ UNCHANGED messagesList
    /\ UNCHANGED <<ragChatInitialized, sessionHash>>
    /\ UNCHANGED <<rankVars, ctxVars, intentVars, filterVars, chunkVars, normVars, turnVars, enhanceVars, snippetVars, searchVars, embedVars, pipelineVars, refreshVars, deleteVars>>

\* addMessage: lLen; lTrim is awaited only when the list is too long
AddMessageLen(r) ==
    /\ rq[r].pc = "am_lLen"
    /\ \/ rq' = [rq EXCEPT ![r] =
                    IF Len(messagesList) > maxConversationHistory
                    THEN [@ EXCEPT !.pc = "am_lTrim", !.count = Len(messagesList)]
                    ELSE [@ EXCEPT !.pc = "am_hIncrBy"]]
       \/ rq' = [rq EXCEPT ![r] = Thrown(@, "RedisError", {"session"})]
    /\ UNCHANGED <<ragChatInitialized, sessionHash, messagesList>>
    /\ UNCHANGED <<rankVars, ctxVars, intentVars, filterVars, chunkVars, normVars, turnVars, enhanceVars, snippetVars, searchVars, embedVars, pipelineVars, refreshVars, deleteVars>>

\* a variant that drops the last `start` elements
lTrim_DropsNewest(list, start) ==
    IF start >= Len(list) THEN <<>> ELSE SubSeq(list, 1, Len(list) - start)

\* LTRIM key start -1 (start is 0-based): drop the first `start` elements
lTrim(list, start) ==
    IF start >= Len(list) THEN <<>> ELSE SubSeq(list, start + 1, Len(list))

\* addMessage: lTrim(messagesKey, messageCount - maxConversationHistory, -1)
AddMessageTrim(r) ==
    /\ rq[r].pc = "am_lTrim"
    /\ \/ /\ messagesList' =
                lTrim(messagesList, rq[r].count - maxConversationHistory)
          /\ rq' = [rq EXCEPT ![r].pc = "am_hIncrBy", ![r].count = 0]
       \/ /\ rq' = [rq EXCEPT ![r] = Thrown(@, "RedisError", {"session"})]
          /\ UNCHANGED messagesList
    /\ UNCHANGED <<ragChatInitialized, sessionHash>>
    /\ UNCHANGED <<rankVars, ctxVars, intentVars, filterVars, chunkVars, normVars, turnVars, enhanceVars, snippetVars, searchVars, embedVars, pipelineVars, refreshVars, deleteVars>>

\* addMessage: hIncrBy(sessionKey, 'messageCount', 1)
AddMessageCount(r) ==
    /\ rq[r].pc = "am_hIncrBy"
    /\ \/ /\ sessionHash' = [sessionHash EXCEPT !.exists = TRUE,
                                                 !.messageCount = @ + 1]
          /\ rq' = [rq EXCEPT ![r].pc = "am_touch"]
       \/ /\ rq' = [rq EXCEPT ![r] = Thrown(@, "RedisError", {"session"})]
          /\ UNCHANGED sessionHash
    /\ UNCHANGED <<ragChatInitialized, messagesList>>
    /\ UNCHANGED <<rankVars, ctxVars, intentVars, filterVars, chunkVars, normVars, turnVars, enhanceVars, snippetVars, searchVars, embedVars, pipelineVars, refreshVars, deleteVars>>

\* addMessage: updateSessionActivity
AddMessageTouch(r) ==
    /\ rq[r].pc = "am_touch"
    /\ \E ok \in BOOLEAN : sessionHash' = TouchedHash(ok)
    /\ rq' = [rq EXCEPT ![r].pc = "am_expire"]
    /\ UNCHANGED <<ragChatInitialized, messagesList>>
    /\ UNCHANGED <<rankVars, ctxVars, intentVars, filterVars, chunkVars, normVars, turnVars, enhanceVars, snippetVars, searchVars, embedVars, pipelineVars, refreshVars, deleteVars>>

\* the response of the else branch: the service is not initialized
InitializationFallback ==
    [ content  |-> KeyOf(X_StillInitializing),
      metadata |-> [NoMetadata EXCEPT !.model = "initialization_fallback"],
      made     |-> TRUE ]

\* the handler with its response: addMessage(assistantMessage)
WithResponse(req, response, outcome) ==
    [req EXCEPT !.pc = "am_rPush", !.phase = "assistant", !.gen = "none",
                !.topK = 0, !.contexts = -1,
                !.response = response, !.outcome = outcome]

\* the catch block around processMessage: the error is kept in
\* processingError and answered by the fallback response
PipelineThrew_Rethrow(req, collaborator) == Thrown(req, "Error", collaborator)

PipelineThrew(req, collaborator) ==
    [ WithResponse(req,
        [ content  |-> KeyOf(X_TechnicalDifficulties),
          metadata |-> [NoMetadata EXCEPT !.fallback_used = "true",
                                          !.model = "error_fallback"],
          made     |-> TRUE ],
        "pipeline_failed")
      EXCEPT !.processingError = TRUE, !.failed = @ \cup collaborator ]

\* addMessage: expire(messagesKey), then back in the handler: the pipeline
\* after the user message, the last getSession after the assistant message
AddMessageExpire(r) ==
    /\ rq[r].pc = "am_expire"
    /\ \/ rq' = [rq EXCEPT ![r] =
                    IF @.phase = "assistant"
                    THEN [@ EXCEPT !.pc = "gs_hGetAll", !.phase = "last"]
                    ELSE IF ragChatInitialized
                         THEN [@ EXCEPT !.pc = "pm_lRange"]
                         ELSE WithResponse(@, InitializationFallback, "initializing")]
       \/ rq' = [rq EXCEPT ![r] = Thrown(@, "RedisError", {"session"})]
    /\ UNCHANGED <<ragChatInitialized, sessionHash, messagesList>>
    /\ UNCHANGED <<rankVars, ctxVars, intentVars, filterVars, chunkVars, normVars, turnVars, enhanceVars, snippetVars, searchVars, embedVars, pipelineVars, refreshVars, deleteVars>>

-----------------------------------------------------------------------------
(* processMessage: the pipeline of one chat request.                        *)

\* the steps of the pipeline, as the request history records them
StartStep(steps, step) == Append(steps, <<step, "start">>)

EndStep_NotAwaited(steps, step) == steps

EndStep(steps, step) == Append(steps, <<step, "end">>)

\* a step without an await in it
RunStep(steps, step) == EndStep(StartStep(steps, step), step)

\* the stored messages as processMessage reads them
TextMessages(list) ==
    [i \in 1..Len(list) |->
        [role |-> list[i].role, content |-> ChatText(list[i].content)]]

\* getChatHistory: lRange(messagesKey, -limit, -1)
getChatHistory(list, limit) == TextMessages(SliceLast(list, limit))

\* generateContent is awaited for a response of the given kind
AwaitGeneration(req, kind, contexts) ==
    [req EXCEPT !.pc = "gen", !.gen = kind, !.contexts = contexts,
                !.steps = StartStep(@, "generate")]

\* getRAGContext returned its contexts: generateRAGResponse if there are
\* some, generateFallbackResponse if not
AfterRAGContext(req, contexts) ==
    AwaitGeneration(req, IF contexts > 0 THEN "rag" ELSE "fallback", contexts)

\* processMessage from getChatHistory to its next await; options.maxContext
\* of the request body is first read here
ProcessHistory(r) ==
    /\ rq[r].pc = "pm_lRange"
    /\ \/ \E maxContext \in RequestMaxContexts :
          LET conversationHistory == getChatHistory(messagesList, historyLookback)
              managedContext ==
                  manageConversationContext(conversationHistory,
                                            conversationTokenLimit)
              userMessage == Trim(ChatText(rq[r].message))
              needsRAG == shouldUseRAGContext(userMessage, managedContext.messages)
              topK == IF maxContext # 0 THEN maxContext ELSE defaultMaxContext
              req == [rq[r] EXCEPT !.steps = RunStep(@, "assemble")]
          IN  rq' = [rq EXCEPT ![r] =
                        IF ~needsRAG THEN AwaitGeneration(req, "simple", -1)
                        ELSE IF topK > maxTopK THEN AfterRAGContext(req, 0)
                        ELSE [req EXCEPT !.pc = "sd_cacheGet", !.topK = topK]]
       \/ rq' = [rq EXCEPT ![r] = PipelineThrew(@, {"history"})]
    /\ UNCHANGED <<ragChatInitialized, sessionHash, messagesList>>
    /\ UNCHANGED <<rankVars, ctxVars, intentVars, filterVars, chunkVars, normVars, turnVars, enhanceVars, snippetVars, searchVars, embedVars, pipelineVars, refreshVars, deleteVars>>

\* the number of results a cached search result may hold (it is cached
\* only when it has results)
CachedContexts == {1, 2}

\* searchDocuments: getCachedResult (an error counts as a miss); on a miss
\* preprocessQuery, then generateEmbedding is awaited
SearchCacheGet(r) ==
    /\ rq[r].pc = "sd_cacheGet"
    /\ \/ \E contexts \in CachedContexts :
            rq' = [rq EXCEPT ![r] = AfterRAGContext(@, contexts)]
       \/ rq' = [rq EXCEPT ![r].pc = "sd_embed",
                            ![r].steps = StartStep(RunStep(@, "normalize"), "embed")]
    /\ UNCHANGED <<ragChatInitialized, sessionHash, messagesList>>
    /\ UNCHANGED <<rankVars, ctxVars, intentVars, filterVars, chunkVars, normVars, turnVars, enhanceVars, snippetVars, searchVars, embedVars, pipelineVars, refreshVars, deleteVars>>

\* searchDocuments: the embedding arrives, buildQdrantFilters, then the
\* vector search is awaited; an error ends in getRAGContext's catch
SearchEmbed(r) ==
    /\ rq[r].pc = "sd_embed"
    /\ \/ rq' = [rq EXCEPT ![r].pc = "sd_search",
                            ![r].steps =
                                StartStep(RunStep(EndStep(@, "embed"), "filter-build"),
                                          "vector-search")]
       \/ rq' = [rq EXCEPT ![r] =
                    AfterRAGContext([@ EXCEPT !.steps = EndStep(@, "embed"),
                                              !.failed = @ \cup {"embedding"}], 0)]
    /\ UNCHANGED <<ragChatInitialized, sessionHash, messagesList>>
    /\ UNCHANGED <<rankVars, ctxVars, intentVars, filterVars, chunkVars, normVars, turnVars, enhanceVars, snippetVars, searchVars, embedVars, pipelineVars, refreshVars, deleteVars>>

\* what the vector search may return
SearchHitLists ==
    { <<>>,
      << [id |-> 1, score |-> 90000, title |-> T_FedRaisesRates],
         [id |-> 4, score |-> 85000, title |-> T_FedRaisesRatesUpper] >>,
      << [id |-> 3, score |-> 80000, title |-> T_StockMarketFalls],
         [id |-> 1, score |-> 90000, title |-> T_FedRaisesRates] >> }

defaultDiversityThreshold == 800

\* searchDocuments: the hits arrive, postProcessResults and enhanceResults;
\* results are cached, none end the search
SearchVector(r) ==
    /\ rq[r].pc = "sd_search"
    /\ \/ \E searchResults \in SearchHitLists :
            LET processedResults ==
                    postProcessResults(searchResults,
                        [targetCount |-> rq[r].topK,
                         diversityThreshold |-> defaultDiversityThreshold,
                         includeMetadata |-> TRUE])
                req == [rq[r] EXCEPT !.steps =
                           RunStep(EndStep(@, "vector-search"), "rank")]
            IN  rq' = [rq EXCEPT ![r] =
                          IF Len(processedResults) > 0
                          THEN [req EXCEPT !.pc = "sd_cacheSet",
                                           !.contexts = Len(processedResults)]
                          ELSE AfterRAGContext(req, 0)]
       \/ rq' = [rq EXCEPT ![r] =
                    AfterRAGContext([@ EXCEPT !.steps = EndStep(@, "vector-search"),
                                              !.failed = @ \cup {"search"}], 0)]
    /\ UNCHANGED <<ragChatInitialized, sessionHash, messagesList>>
    /\ UNCHANGED <<rankVars, ctxVars, intentVars, filterVars, chunkVars, normVars, turnVars, enhanceVars, snippetVars, searchVars, embedVars, pipelineVars, refreshVars, deleteVars>>

\* searchDocuments: cacheResult (an error is logged and swallowed)
SearchCacheSet(r) ==
    /\ rq[r].pc = "sd_cacheSet"
    /\ rq' = [rq EXCEPT ![r] = AfterRAGContext(@, @.contexts)]
    /\ UNCHANGED <<ragChatInitialized, sessionHash, messagesList>>
    /\ UNCHANGED <<rankVars, ctxVars, intentVars, filterVars, chunkVars, normVars, turnVars, enhanceVars, snippetVars, searchVars, embedVars, pipelineVars, refreshVars, deleteVars>>

\* what generateRAGResponse and generateSimpleResponse return
GeminiResponse ==
    [ content  |-> KeyOf(X_Answer),
      metadata |-> [NoMetadata EXCEPT !.model = "gemini"],
      made     |-> TRUE ]

\* generateFallbackResponse around the simple response
generateFallbackResponse_Unmarked(response) == response

generateFallbackResponse(response) ==
    [response EXCEPT
        !.content = KeyOf(ChatText(@) \o fallbackNotice),
        !.metadata = [@ EXCEPT !.fallback_used = "true"]]

\* processMessage after the generation of the given kind
ProcessedResponse(kind) ==
    CASE kind = "rag" ->
            [GeminiResponse EXCEPT !.metadata = [@ EXCEPT !.rag_used = "true"]]
      [] kind = "fallback" ->
            [generateFallbackResponse(GeminiResponse) EXCEPT
                !.metadata = [@ EXCEPT !.rag_used = "false",
                                       !.reason = "no_relevant_context"]]
      [] kind = "simple" ->
            [GeminiResponse EXCEPT
                !.metadata = [@ EXCEPT !.rag_used = "false",
                                       !.reason = "general_conversation"]]

OutcomeOf(kind) ==
    CASE kind = "rag" -> "genuine_rag"
      [] kind = "fallback" -> "no_context"
      [] kind = "simple" -> "general"

\* generateContent returns or fails; processMessage returns or throws
Generate(r) ==
    /\ rq[r].pc = "gen"
    /\ \/ rq' = [rq EXCEPT ![r] =
                    WithResponse([@ EXCEPT !.steps = EndStep(@, "generate")],
                                 ProcessedResponse(@.gen), OutcomeOf(@.gen))]
       \/ rq' = [rq EXCEPT ![r] =
                    PipelineThrew([@ EXCEPT !.steps = EndStep(@, "generate")],
                                  {"generation"})]
    /\ UNCHANGED <<ragChatInitialized, sessionHash, messagesList>>
    /\ UNCHANGED <<rankVars, ctxVars, intentVars, filterVars, chunkVars, normVars, turnVars, enhanceVars, snippetVars, searchVars, embedVars, pipelineVars, refreshVars, deleteVars>>

-----------------------------------------------------------------------------
(* The text chunker: TextPreprocessor.chunkArticle.                         *)
(*                                                                         *)
(* An article body runs to hundreds of characters, so the regular          *)
(* expressions of cleanText are computed position by position rather than  *)
(* by recursion over the characters.                                       *)

DefaultChunkSize == 800

DefaultChunkOverlap == 200

DefaultMinChunkSize == 100

\* options.x || d: an absent option and 0 are both falsy
OrDefault(v, d) == IF v = 0 THEN d ELSE v

\* constructor(options): preserveParagraphs is options.preserveParagraphs ||
\* true, which is true whatever the option
TextPreprocessor(options) ==
    [chunkSize |-> OrDefault(options.chunkSize, DefaultChunkSize),
     chunkOverlap |-> OrDefault(options.chunkOverlap, DefaultChunkOverlap),
     minChunkSize |-> OrDefault(options.minChunkSize, DefaultMinChunkSize),
     preserveParagraphs |-> TRUE]

\* the elements of q at the positions that satisfy keep, in order
SelectAt(q, keep(_)) ==
    LET marked == [i \in 1..Len(q) |-> <<q[i], keep(i)>>]
        kept == SelectSeq(marked, LAMBDA p : p[2])
    IN  [i \in 1..Len(kept) |-> kept[i][1]]

Digits == <<"0","1","2","3","4","5","6","7","8","9">>

\* \w
IsWordChar(c) ==
    c \in SeqToSet(LowerCase) \cup SeqToSet(UpperCase) \cup SeqToSet(Digits) \cup {"_"}

\* [.,!?;:]
IsPunctuation(c) == c \in {".", ",", "!", "?", ";", ":"}

\* [\w\s.,!?;:()\-"']
IsKept(c) ==
    IsWordChar(c) \/ IsSpace(c) \/ IsPunctuation(c) \/ c \in {"(", ")", "-", "\"", "'"}

\* .replace(/\s+/g, ' ')
NormalizeWhitespace(s) ==
    LET t == SelectAt(s, LAMBDA i : ~(IsSpace(s[i]) /\ i > 1 /\ IsSpace(s[i - 1])))
    IN  [i \in 1..Len(t) |-> IF IsSpace(t[i]) THEN " " ELSE t[i]]

\* .replace(/[^\w\s.,!?;:()\-"']/g, '')
RemoveSpecial(s) == SelectSeq(s, IsKept)

\* .replace(/\.{3,}/g, '...'): a run of periods keeps its first three
FixPeriods(s) ==
    SelectAt(s, LAMBDA i : ~(/\ s[i] = "."
                             /\ i > 3
                             /\ s[i - 1] = "."
                             /\ s[i - 2] = "."
                             /\ s[i - 3] = "."))

\* the whitespace from position i on runs up to a punctuation mark
BeforePunctuation(s, i) ==
    \E j \in (i + 1)..Len(s) :
        IsPunctuation(s[j]) /\ \A k \in i..(j - 1) : IsSpace(s[k])

\* .replace(/\s+([.,!?;:])/g, '$1')
StripBeforePunctuation(s) ==
    SelectAt(s, LAMBDA i : ~(IsSpace(s[i]) /\ BeforePunctuation(s, i)))

\* the whitespace up to position i started right after a punctuation mark
AfterPunctuation(s, i) ==
    \E j \in 1..(i - 1) :
        IsPunctuation(s[j]) /\ \A k \in (j + 1)..i : IsSpace(s[k])

\* .replace(/([.,!?;:])\s+/g, '$1 ')
SingleSpaceAfterPunctuation(s) ==
    LET t == SelectAt(s, LAMBDA i : ~(/\ IsSpace(s[i])
                                      /\ i > 1
                                      /\ IsSpace(s[i - 1])
                                      /\ AfterPunctuation(s, i)))
    IN  [i \in 1..Len(t) |->
            IF IsSpace(t[i]) /\ i > 1 /\ IsPunctuation(t[i - 1]) THEN " " ELSE t[i]]

cleanText(text) ==
    IF text = Undefined \/ text = <<>> THEN <<>>
    ELSE Trim(SingleSpaceAfterPunctuation(StripBeforePunctuation(
              FixPeriods(RemoveSpecial(NormalizeWhitespace(text))))))

ParagraphBreak == <<"\n", "\n">>

\* the first position from `from` on at which sep occurs in s, 0 if none
IndexOfFrom(s, sep, from) ==
    LET at == { i \in from..(Len(s) - Len(sep) + 1) : OccursAt(s, sep, i) }
    IN  IF at = {} THEN 0 ELSE CHOOSE i \in at : \A j \in at : i <= j

\* String.prototype.split(separator)
RECURSIVE SplitOn(_, _, _)
SplitOn(s, sep, from) ==
    LET i == IndexOfFrom(s, sep, from)
    IN  IF i = 0 THEN <<SubSeq(s, from, Len(s))>>
        ELSE <<SubSeq(s, from, i - 1)>> \o SplitOn(s, sep, i + Len(sep))

\* String.prototype.lastIndexOf: counted from 0, -1 if t does not occur
LastIndexOf(s, t) ==
    LET at == { i \in 1..(Len(s) - Len(t) + 1) : OccursAt(s, t, i) }
    IN  IF at = {} THEN -1 ELSE (CHOOSE i \in at : \A j \in at : j <= i) - 1

getOverlapText(text, pre) ==
    IF Len(text) <= pre.chunkOverlap THEN text
    ELSE LET overlapText == SliceLast(text, pre.chunkOverlap)
             sentenceBreak == LastIndexOf(overlapText, <<".", " ">>)
             wordBreak == LastIndexOf(overlapText, <<" ">>)
         IN  IF 2 * sentenceBreak > pre.chunkOverlap
             THEN SubSeq(overlapText, sentenceBreak + 3, Len(overlapText))
             ELSE IF 2 * wordBreak > pre.chunkOverlap
                  THEN SubSeq(overlapText, wordBreak + 2, Len(overlapText))
                  ELSE overlapText

addContext(text) == Trim(text)

\* chunks.push({ text, startIndex, endIndex }) if the chunk is long enough
PushChunk(chunkList, currentChunk, currentStartIndex, currentEndIndex, pre) ==
    IF Len(currentChunk) >= pre.minChunkSize
    THEN Append(chunkList, [text |-> addContext(currentChunk),
                            startIndex |-> currentStartIndex,
                            endIndex |-> currentEndIndex])
    ELSE chunkList

\* the loop of chunkByParagraphs from paragraph i on
RECURSIVE ParagraphLoop(_, _, _, _, _, _, _)
ParagraphLoop(paragraphs, i, currentChunk, currentStartIndex, currentEndIndex, chunkList, pre) ==
    IF i > Len(paragraphs)
    THEN PushChunk(chunkList, currentChunk, currentStartIndex, currentEndIndex, pre)
    ELSE LET paragraph == Trim(paragraphs[i])
             potentialChunk ==
                 IF currentChunk # <<>>
                 THEN currentChunk \o ParagraphBreak \o paragraph
                 ELSE paragraph
         IN  IF Len(potentialChunk) <= pre.chunkSize \/ currentChunk = <<>>
             THEN ParagraphLoop(paragraphs, i + 1, potentialChunk,
                                currentStartIndex,
                                currentStartIndex + Len(potentialChunk),
                                chunkList, pre)
             ELSE LET overlap == getOverlapText(currentChunk, pre)
                      nextChunk ==
                          IF overlap # <<>>
                          THEN overlap \o ParagraphBreak \o paragraph
                          ELSE paragraph
                      nextStartIndex ==
                          currentEndIndex
                          - (IF overlap # <<>> THEN Len(overlap) + 2 ELSE 0)
                  IN  ParagraphLoop(paragraphs, i + 1, nextChunk, nextStartIndex,
                                    nextStartIndex + Len(nextChunk),
                                    PushChunk(chunkList, currentChunk,
                                              currentStartIndex, currentEndIndex,
                                              pre),
                                    pre)

chunkByParagraphs(text, pre) ==
    LET paragraphs ==
            SelectSeq(SplitOn(text, ParagraphBreak, 1), LAMBDA p : Trim(p) # <<>>)
    IN  ParagraphLoop(paragraphs, 1, <<>>, 0, 0, <<>>, pre)

\* text.split(/\s+/).length: one piece more than there are runs of whitespace
WordCount(text) ==
    Cardinality({ i \in 1..Len(text) :
                    IsSpace(text[i]) /\ (i = 1 \/ ~IsSpace(text[i - 1])) }) + 1

createChunk(chunkId, art, text, type, startIndex, endIndex) ==
    [id |-> <<art.id, chunkId>>,
     articleId |-> art.id,
     chunkId |-> chunkId,
     text |-> text,
     type |-> type,
     startIndex |-> startIndex,
     endIndex |-> endIndex,
     wordCount |-> WordCount(text),
     charCount |-> Len(text),
     metadata |-> [title |-> art.title]]

TitlePrefix == <<"T","i","t","l","e",":"," ">>

SummaryPrefix == <<"\n","\n","S","u","m","m","a","r","y",":"," ">>

chunkArticle(art, pre) ==
    LET cleanContent == cleanText(art.content)
        cleanTitle == cleanText(art.title)
        cleanSummary == cleanText(art.summary)
        titleChunks ==
            IF cleanTitle # <<>>
            THEN <<createChunk(0, art,
                       TitlePrefix \o cleanTitle
                       \o (IF cleanSummary # <<>>
                           THEN SummaryPrefix \o cleanSummary ELSE <<>>),
                       "title", 0,
                       Len(cleanTitle)
                       + (IF cleanSummary # <<>> THEN Len(cleanSummary) + 12 ELSE 0))>>
            ELSE <<>>
        pieces ==
            IF cleanContent # <<>> /\ Len(cleanContent) > pre.minChunkSize
            THEN chunkByParagraphs(cleanContent, pre)
            ELSE <<>>
    IN  titleChunks
        \o [k \in 1..Len(pieces) |->
               createChunk(Len(titleChunks) + k - 1, art, pieces[k].text, "content",
                           pieces[k].startIndex, pieces[k].endIndex)]

-----------------------------------------------------------------------------
(* Inputs of the chunker.                                                   *)

\* one sentence of prose, with the space that separates it from the next
Sentence == <<"A","I"," ","r","e","a","d","s"," ","t","h","e"," ","n","e","w","s","."," ">>

\* n sentences of prose, without the space after the last
Prose(n) ==
    [i \in 1..(n * Len(Sentence) - 1) |-> Sentence[((i - 1) % Len(Sentence)) + 1]]

\* three paragraphs of a, b and c sentences
ThreeParagraphs(a, b, c) ==
    Prose(a) \o ParagraphBreak \o Prose(b) \o ParagraphBreak \o Prose(c)

A_Title == <<"A","I"," ","N","e","w","s">>

\* the sentences of the scenario's three paragraphs: 45 sentences are 856
\* characters with the two paragraph breaks
ScenarioParagraphs == { <<15, 15, 15>>, <<10, 15, 20>>, <<20, 15, 10>> }

ScenarioArticles ==
    { [id |-> 1, title |-> A_Title, summary |-> Undefined,
       content |-> ThreeParagraphs(p[1], p[2], p[3])] : p \in ScenarioParagraphs }

A_ShortLead == Prose(8) \o ParagraphBreak \o Prose(37)

A_Markup == <<"B","i","g"," "," ","n","e","w","s"," ","#","1"," ",","," "," ","t","o","d","a","y"," ",".",".",".",".","\n","\n","\n","M","o","r","e"," ","*","s","o","o","n","*"," ","!">>

A_TwoShort == <<"a","b","c"," ","d","\n","\n","e","f","g","h","i","j"," ","k","l","m","n">>

A_ThreeShort == <<"O","n","e"," ","t","w","o","."," ","T","h","r","e","e","\n","\n","f","o","u","r"," ","f","i","v","e"," ","s","i","x","\n","\n","s","e","v","e","n","."," ","E","i","g","h","t"," ","n","i","n","e"," ","t","e","n">>

A_Summary == <<"I","n"," ","b","r","i","e","f">>

A_OneLine == <<"n","o"," ","b","r","e","a","k","s"," ","h","e","r","e"," ","a","t"," ","a","l","l">>

ChunkerArticles ==
    ScenarioArticles
    \cup { [id |-> 2, title |-> A_Title, summary |-> A_Summary, content |-> c] :
             c \in {A_ShortLead, A_Markup, A_TwoShort, A_ThreeShort} }
    \cup { [id |-> 3, title |-> t, summary |-> Undefined, content |-> c] :
             t \in {Undefined, <<>>}, c \in {A_TwoShort, A_OneLine, Undefined} }

\* the options given to the constructor; 0 is an option left out
ChunkerOptions ==
    { [chunkSize |-> 0, chunkOverlap |-> 0, minChunkSize |-> 0],
      [chunkSize |-> 12, chunkOverlap |-> 4, minChunkSize |-> 3],
      [chunkSize |-> 10, chunkOverlap |-> 6, minChunkSize |-> 2],
      [chunkSize |-> 20, chunkOverlap |-> 5, minChunkSize |-> 8] }

ChunkStart ==
    /\ article \in ChunkerArticles
    /\ preprocessor \in { TextPreprocessor(o) : o \in ChunkerOptions }
    /\ chunks = <<>>
    /\ contentChunks = <<>>
    /\ chunkPc = "call"

ChunkIdle ==
    /\ article = [id |-> 0, title |-> Undefined, summary |-> Undefined,
                  content |-> Undefined]
    /\ preprocessor = TextPreprocessor([chunkSize |-> 0, chunkOverlap |-> 0,
                                        minChunkSize |-> 0])
    /\ chunks = <<>>
    /\ contentChunks = <<>>
    /\ chunkPc = "idle"

\* chunks = await preprocessor.chunkArticle(article)
ChunkArticle ==
    /\ chunkPc = "call"
    /\ chunks' = chunkArticle(article, preprocessor)
    /\ chunkPc' = "returned"
    /\ UNCHANGED <<article, preprocessor, contentChunks>>
    /\ UNCHANGED <<rankVars, ctxVars, intentVars, chatVars, filterVars, normVars, turnVars, enhanceVars, snippetVars, searchVars, embedVars, pipelineVars, refreshVars, deleteVars>>

\* preprocessor.chunkByParagraphs(text) on the text of the article as given
ChunkByParagraphs ==
    /\ chunkPc = "call"
    /\ article.content # Undefined
    /\ contentChunks' = chunkByParagraphs(article.content, preprocessor)
    /\ chunkPc' = "paragraphs"
    /\ UNCHANGED <<article, preprocessor, chunks>>
    /\ UNCHANGED <<rankVars, ctxVars, intentVars, chatVars, filterVars, normVars, turnVars, enhanceVars, snippetVars, searchVars, embedVars, pipelineVars, refreshVars, deleteVars>>

-----------------------------------------------------------------------------
(* The query normaliser: RAGRetrievalService.preprocessQuery.               *)

\* the positions of s that satisfy at, in order
PositionsWhere(s, at(_)) == SelectAt([i \in 1..Len(s) |-> i], at)

\* query.split(/\s+/), computed by position: the pieces between the maximal
\* runs of whitespace, with an empty piece before a leading run and after a
\* trailing one
SplitWords(s) ==
    LET runStarts ==
            PositionsWhere(s, LAMBDA i : IsSpace(s[i]) /\ (i = 1 \/ ~IsSpace(s[i - 1])))
        runEnds ==
            PositionsWhere(s, LAMBDA i : IsSpace(s[i])
                                         /\ (i = Len(s) \/ ~IsSpace(s[i + 1])))
    IN  [k \in 1..(Len(runStarts) + 1) |->
            SubSeq(s,
                   IF k = 1 THEN 1 ELSE runEnds[k - 1] + 1,
                   IF k = Len(runStarts) + 1 THEN Len(s) ELSE runStarts[k] - 1)]

\* [\w\s.,!?-]
IsQueryChar(c) == IsWordChar(c) \/ IsSpace(c) \/ c \in {".", ",", "!", "?", "-"}

\* \bw\b matches at position i of s
WordAt(s, w, i) ==
    /\ OccursAt(s, w, i)
    /\ i = 1 \/ ~IsWordChar(s[i - 1])
    /\ i + Len(w) > Len(s) \/ ~IsWordChar(s[i + Len(w)])

\* .replace(/\bw\b/g, r) from position `from` on
RECURSIVE ReplaceWordFrom(_, _, _, _)
ReplaceWordFrom(s, w, r, from) ==
    LET at == { i \in from..(Len(s) - Len(w) + 1) : WordAt(s, w, i) }
    IN  IF at = {} THEN SubSeq(s, from, Len(s))
        ELSE LET i == CHOOSE i \in at : \A j \in at : i <= j
             IN  SubSeq(s, from, i - 1) \o r \o ReplaceWordFrom(s, w, r, i + Len(w))

W_ai == <<"a","i">>

W_ArtificialIntelligence == <<"a","r","t","i","f","i","c","i","a","l"," ","i","n","t","e","l","l","i","g","e","n","c","e">>

W_ml == <<"m","l">>

W_MachineLearning == <<"m","a","c","h","i","n","e"," ","l","e","a","r","n","i","n","g">>

\* the chain of replacements at the head of preprocessQuery
CleanQuery(text) ==
    LET spaced == NormalizeWhitespace(Trim(toLowerCase(text)))
        plain == SelectSeq(spaced, IsQueryChar)
    IN  ReplaceWordFrom(ReplaceWordFrom(plain, W_ai, W_ArtificialIntelligence, 1),
                        W_ml, W_MachineLearning, 1)

stopWords ==
    { <<"t","h","e">>,
      <<"i","s">>,
      <<"a","r","e">>,
      <<"w","a","s">>,
      <<"w","e","r","e">>,
      <<"b","e">>,
      <<"b","e","e","n">>,
      <<"b","e","i","n","g">>,
      <<"h","a","v","e">>,
      <<"h","a","s">>,
      <<"h","a","d">>,
      <<"d","o">>,
      <<"d","o","e","s">>,
      <<"d","i","d">>,
      <<"w","i","l","l">>,
      <<"w","o","u","l","d">>,
      <<"c","o","u","l","d">>,
      <<"s","h","o","u","l","d">>,
      <<"m","a","y">>,
      <<"m","i","g","h","t">>,
      <<"m","u","s","t">>,
      <<"c","a","n">>,
      <<"s","h","a","l","l">>,
      <<"a">>,
      <<"a","n">>,
      <<"a","n","d">>,
      <<"o","r">>,
      <<"b","u","t">>,
      <<"i","n">>,
      <<"o","n">>,
      <<"a","t">>,
      <<"t","o">>,
      <<"f","o","r">>,
      <<"o","f">>,
      <<"w","i","t","h">>,
      <<"b","y">>,
      <<"a","b","o","u","t">>,
      <<"w","h","a","t">>,
      <<"w","h","e","r","e">>,
      <<"w","h","e","n">>,
      <<"w","h","y">>,
      <<"h","o","w">>,
      <<"w","h","o">> }

maxKeyTerms == 5

maxEnhancedTerms == 3

enhanceBelowLength == 100

\* array.slice(0, n)
SliceFirst(q, n) == SubSeq(q, 1, IF n < Len(q) THEN n ELSE Len(q))

\* a variant that returns each term in its plural
extractKeyTerms_Plural(text) ==
    LET terms == SliceFirst(SelectSeq(SplitWords(text),
                                      LAMBDA word : Len(word) > 2 /\ word \notin stopWords),
                            maxKeyTerms)
    IN  [k \in 1..Len(terms) |-> terms[k] \o <<"s">>]

extractKeyTerms(text) ==
    SliceFirst(SelectSeq(SplitWords(text),
                         LAMBDA word : Len(word) > 2 /\ word \notin stopWords),
               maxKeyTerms)

\* array.join(' ')
RECURSIVE JoinWithSpace(_)
JoinWithSpace(q) ==
    IF q = <<>> THEN <<>>
    ELSE IF Len(q) = 1 THEN q[1]
    ELSE q[1] \o <<" ">> \o JoinWithSpace(Tail(q))

\* a variant that keeps every key term
EnhancedTerms_All(processed, keyTerms) == keyTerms

\* keyTerms.filter(term => !processed.includes(term))
EnhancedTerms(processed, keyTerms) ==
    SelectSeq(keyTerms, LAMBDA term : ~Includes(processed, term))

preprocessQuery(text) ==
    LET processed == CleanQuery(text)
        keyTerms == extractKeyTerms(processed)
    IN  IF keyTerms # <<>> /\ Len(processed) < enhanceBelowLength
        THEN LET enhancedTerms == EnhancedTerms(processed, keyTerms)
             IN  IF enhancedTerms # <<>>
                 THEN processed \o <<" ">>
                      \o JoinWithSpace(SliceFirst(enhancedTerms, maxEnhancedTerms))
                 ELSE processed
        ELSE processed

-----------------------------------------------------------------------------
(* Inputs of the query normaliser.                                          *)

\* how often the normaliser is run on its own output
MaxNormRuns == 3

Q_Words ==
    { <<"a","i">>, <<"m","l">>, <<"n","e","w","s">>, <<"t","h","e">>, <<"F","e","d">>, <<"e","m","a","i","l">>, <<"c","#">>, <<"r","a","t","e","s","!">>,
      <<"c","l","i","m","a","t","e">> }

Q_Separators == { <<" ">>, <<" "," ">>, <<"-">>, <<" ","&"," ">>, <<"."," ">> }

\* twenty-one words: 104 characters, at the length where no terms are added
Q_Long == [i \in 1..104 |-> <<"n","e","w","s"," ">>[((i - 1) % 5) + 1]]

Q_Others ==
    { <<>>, <<" ","p","a","d","d","e","d"," ">>, <<"w","h","a","t"," ","i","s"," ","t","h","e"," ","l","a","t","e","s","t"," ","a","i"," ","a","n","d"," ","m","l"," ","n","e","w","s"," ","t","o","d","a","y","?">>,
      <<"t","e","l","l"," ","m","e"," ","a","b","o","u","t"," ","c","l","i","m","a","t","e"," ","c","h","a","n","g","e"," ","p","o","l","i","c","y"," ","i","n"," ","e","u","r","o","p","e"," ","n","o","w">>,
      <<"a","#","i">>, <<"#"," ","n","e","w","s">>, Q_Long }

QueryPool ==
    Q_Words \cup Q_Others
    \cup { a \o sep \o b : a \in Q_Words, sep \in Q_Separators, b \in Q_Words }

NormStart ==
    /\ query \in QueryPool
    /\ processedQuery = query
    /\ processedOnce = query
    /\ normRuns = 0

NormIdle ==
    /\ query = <<>>
    /\ processedQuery = <<>>
    /\ processedOnce = <<>>
    /\ normRuns = -1

\* processed = this.preprocessQuery(...): on the query first, then on what
\* the run before returned
PreprocessQuery ==
    /\ normRuns >= 0
    /\ normRuns < MaxNormRuns
    /\ processedQuery' = preprocessQuery(processedQuery)
    /\ processedOnce' = IF normRuns = 0 THEN processedQuery' ELSE processedOnce
    /\ normRuns' = normRuns + 1
    /\ UNCHANGED query
    /\ UNCHANGED <<rankVars, ctxVars, intentVars, chatVars, filterVars, chunkVars, turnVars, enhanceVars, snippetVars, searchVars, embedVars, pipelineVars, refreshVars, deleteVars>>

-----------------------------------------------------------------------------
(* GET /api/chat/:sessionId/history, and the client of                      *)
(* test-rag-pipeline.js, which posts its chat turns one after the other    *)
(* (each response is awaited before the next request is sent) and then     *)
(* reads the history back once.                                             *)

\* const { limit = 50, offset = 0 } = req.query
defaultHistoryLimit == 50

\* the limit and the offset of a history request; 0 is a limit left out
HistoryLimits == {0, 2}

HistoryOffsets == {0, 1}

NoHistoryReply ==
    [sent |-> FALSE, statusCode |-> 0, messages |-> <<>>, total_messages |-> 0]

IdleHistoryRequest ==
    [ pc           |-> "idle",
      limit        |-> 0,
      offset       |-> 0,
      messageCount |-> 0,           \* session.messageCount, as getSession read it
      reply        |-> NoHistoryReply ]

\* asyncHandler: an error thrown by the history handler goes to errorHandler
HistoryThrown(req, err) ==
    [req EXCEPT !.pc = "done",
                !.reply = [NoHistoryReply EXCEPT
                              !.sent = TRUE,
                              !.statusCode = errorHandler(err).statusCode]]

\* getSession: hGetAll; no session is a NotFoundError
HistoryGetSession ==
    /\ historyRq.pc = "gs_hGetAll"
    /\ \/ historyRq' =
             IF sessionHash.exists
             THEN [historyRq EXCEPT !.pc = "gs_touch",
                                    !.messageCount = sessionHash.messageCount]
             ELSE HistoryThrown(historyRq, "NotFoundError")
       \/ historyRq' = HistoryThrown(historyRq, "RedisError")
    /\ UNCHANGED <<chatVars, client>>
    /\ UNCHANGED <<rankVars, ctxVars, intentVars, filterVars, chunkVars, normVars, enhanceVars, snippetVars, searchVars, embedVars, pipelineVars, refreshVars, deleteVars>>

\* getSession, after the read: updateSessionActivity
HistoryTouch ==
    /\ historyRq.pc = "gs_touch"
    /\ \E ok \in BOOLEAN : sessionHash' = TouchedHash(ok)
    /\ historyRq' = [historyRq EXCEPT !.pc = "lRange"]
    /\ UNCHANGED <<ragChatInitialized, messagesList, rq, client>>
    /\ UNCHANGED <<rankVars, ctxVars, intentVars, filterVars, chunkVars, normVars, enhanceVars, snippetVars, searchVars, embedVars, pipelineVars, refreshVars, deleteVars>>

\* messages.slice(offset)
SliceFrom(q, offset) == SubSeq(q, offset + 1, Len(q))

\* getChatHistory(sessionId, limit + offset), messages.slice(offset), res.json
HistoryRange ==
    /\ historyRq.pc = "lRange"
    /\ \/ historyRq' =
             [historyRq EXCEPT
                 !.pc = "done",
                 !.reply =
                     [ sent           |-> TRUE,
                       statusCode     |-> 200,
                       messages       |->
                           SliceFrom(getChatHistory(messagesList,
                                                    historyRq.limit + historyRq.offset),
                                     historyRq.offset),
                       total_messages |-> historyRq.messageCount ]]
       \/ historyRq' = HistoryThrown(historyRq, "RedisError")
    /\ UNCHANGED <<chatVars, client>>
    /\ UNCHANGED <<rankVars, ctxVars, intentVars, filterVars, chunkVars, normVars, enhanceVars, snippetVars, searchVars, embedVars, pipelineVars, refreshVars, deleteVars>>

\* the history the client read last, and the turns it had made by then
NoRead == [after |-> 0, limit |-> 0, offset |-> 0, reply |-> NoHistoryReply]

\* the client sends its next chat turn: const chatResponse = await axios.post
ClientPost ==
    /\ client.pc = "ready"
    /\ Len(client.turns) < NumRequests
    /\ client' = [client EXCEPT !.pc = "posting", !.current = Len(client.turns) + 1]
    /\ UNCHANGED <<chatVars, historyRq>>
    /\ UNCHANGED <<rankVars, ctxVars, intentVars, filterVars, chunkVars, normVars, enhanceVars, snippetVars, searchVars, embedVars, pipelineVars, refreshVars, deleteVars>>

\* the response of the turn arrives
ClientResponse ==
    /\ client.pc = "posting"
    /\ rq[client.current].pc = "done"
    /\ client' = [client EXCEPT !.pc = "ready", !.current = 0,
                                !.turns = Append(@, client.current)]
    /\ UNCHANGED <<chatVars, historyRq>>
    /\ UNCHANGED <<rankVars, ctxVars, intentVars, filterVars, chunkVars, normVars, enhanceVars, snippetVars, searchVars, embedVars, pipelineVars, refreshVars, deleteVars>>

\* const historyResponse = await axios.get(.../history)
ClientGetHistory ==
    /\ client.pc = "ready"
    /\ historyRq.pc = "idle"
    /\ \E limit \in HistoryLimits, offset \in HistoryOffsets :
          historyRq' = [IdleHistoryRequest EXCEPT
                           !.pc = "gs_hGetAll",
                           !.limit = IF limit = 0 THEN defaultHistoryLimit ELSE limit,
                           !.offset = offset]
    /\ client' = [client EXCEPT !.pc = "reading"]
    /\ UNCHANGED chatVars
    /\ UNCHANGED <<rankVars, ctxVars, intentVars, filterVars, chunkVars, normVars, enhanceVars, snippetVars, searchVars, embedVars, pipelineVars, refreshVars, deleteVars>>

\* the history response arrives; the client is finished
ClientHistoryResponse ==
    /\ client.pc = "reading"
    /\ historyRq.pc = "done"
    /\ client' = [client EXCEPT
                     !.pc = "finished",
                     !.read = [after  |-> Len(client.turns),
                               limit  |-> historyRq.limit,
                               offset |-> historyRq.offset,
                               reply  |-> historyRq.reply]]
    /\ historyRq' = IdleHistoryRequest
    /\ UNCHANGED chatVars
    /\ UNCHANGED <<rankVars, ctxVars, intentVars, filterVars, chunkVars, normVars, enhanceVars, snippetVars, searchVars, embedVars, pipelineVars, refreshVars, deleteVars>>

TurnStart ==
    /\ client = [pc |-> "ready", current |-> 0, turns |-> <<>>, read |-> NoRead]
    /\ historyRq = IdleHistoryRequest

\* no client that awaits its responses: requests arrive as they please
TurnIdle ==
    /\ client = [pc |-> "off", current |-> 0, turns |-> <<>>, read |-> NoRead]
    /\ historyRq = IdleHistoryRequest

-----------------------------------------------------------------------------
(* The query enhancer: RAGChatService.enhanceQueryWithContext and           *)
(* isFollowUpQuestion.                                                      *)

\* String.prototype.startsWith
StartsWith(s, t) == OccursAt(s, t, 1)

\* the prefix the client puts on an article query
articleQueryPrefix == <<"T","e","l","l"," ","m","e"," ","a","b","o","u","t",":">>

\* the alternatives of the three patterns anchored at the start of the message
followUpPrefixes ==
    { <<"w","h","a","t"," ","a","b","o","u","t">>, <<"h","o","w"," ","a","b","o","u","t">>, <<"a","n","d"," ","w","h","a","t">>, <<"t","e","l","l"," ","m","e"," ","m","o","r","e"," ","a","b","o","u","t"," ","t","h","a","t">>,
      <<"m","o","r","e"," ","d","e","t","a","i","l","s"," ","a","b","o","u","t">>, <<"a","n","y","t","h","i","n","g"," ","e","l","s","e">>,
      <<"a","l","s","o",",">>, <<"a","d","d","i","t","i","o","n","a","l","l","y",",">>, <<"f","u","r","t","h","e","r","m","o","r","e",",">>, <<"m","o","r","e","o","v","e","r",",">>,
      <<"c","a","n"," ","y","o","u">>, <<"c","o","u","l","d"," ","y","o","u">>, <<"w","o","u","l","d"," ","y","o","u">>, <<"w","i","l","l"," ","y","o","u">> }

\* the alternatives of the pattern that may match anywhere
followUpPhrases ==
    { <<"m","o","r","e"," ","i","n","f","o","r","m","a","t","i","o","n">>, <<"m","o","r","e"," ","d","e","t","a","i","l","s">>, <<"e","l","a","b","o","r","a","t","e">>, <<"e","x","p","a","n","d">> }

\* followUpPatterns.some(pattern => pattern.test(message.trim())), every
\* pattern with the i flag
MatchesFollowUpPattern(message) ==
    LET trimmed == toLowerCase(Trim(message))
    IN  \/ \E prefix \in followUpPrefixes : StartsWith(trimmed, prefix)
        \/ \E phrase \in followUpPhrases : Includes(trimmed, phrase)

\* a variant that takes every question for a follow-up
isFollowUpQuestion_Always(message) ==
    ~StartsWith(message, articleQueryPrefix)

isFollowUpQuestion(message) ==
    IF StartsWith(message, articleQueryPrefix) THEN FALSE
    ELSE MatchesFollowUpPattern(message)

\* the contents of the user messages of a history, in order
UserContents(conversationHistory) ==
    LET users == SelectSeq(conversationHistory, LAMBDA msg : msg.role = "user")
    IN  [i \in 1..Len(users) |-> users[i].content]

\* content.replace('Tell me about:', '').trim() of a content that starts
\* with the prefix
ArticleTitle(content) ==
    Trim(SubSeq(content, Len(articleQueryPrefix) + 1, Len(content)))

recentUserLookback == 2

enhanceQueryWithContext(userMessage, conversationHistory) ==
    IF StartsWith(userMessage, articleQueryPrefix) THEN userMessage
    ELSE IF Len(conversationHistory) = 0 THEN userMessage
    ELSE
      LET recentUserMessages ==
              SliceLast(UserContents(conversationHistory), recentUserLookback)
          articleQueries ==
              SelectSeq(UserContents(conversationHistory),
                        LAMBDA content : StartsWith(content, articleQueryPrefix))
      IN  IF isFollowUpQuestion(userMessage)
          THEN IF articleQueries # <<>>
               THEN userMessage \o <<" ">>
                        \o ArticleTitle(articleQueries[Len(articleQueries)])
               ELSE JoinWithSpace(recentUserMessages) \o <<" ">> \o userMessage
          ELSE userMessage

(* Inputs of the query enhancer. *)

MaxEnhanceHistory == 3

EnhanceMessagePool ==
    { <<"h","e","l","l","o">>, <<"W","h","a","t"," ","i","s"," ","A","I","?">>, <<"T","e","l","l"," ","m","e"," ","m","o","r","e"," ","a","b","o","u","t"," ","t","h","a","t">>,
      <<" "," ","c","a","n"," ","y","o","u"," ","e","x","p","l","a","i","n">>, <<"I"," ","n","e","e","d"," ","M","O","R","E"," ","D","E","T","A","I","L","S">>,
      <<"T","e","l","l"," ","m","e"," ","a","b","o","u","t",":"," ","B","u","d","g","e","t">>, <<"T","e","l","l"," ","m","e"," ","a","b","o","u","t",":"," ","m","o","r","e"," ","d","e","t","a","i","l","s">>,
      <<"t","e","l","l"," ","m","e"," ","a","b","o","u","t",":"," ","r","a","t","e","s">> }

EnhanceTurnPool ==
    { [role |-> "user",      content |-> <<"T","e","l","l"," ","m","e"," ","a","b","o","u","t",":"," ","B","u","d","g","e","t"," ","2","0","2","4"," ">>],
      [role |-> "user",      content |-> <<"a","n","y"," ","n","e","w","s","?">>],
      [role |-> "user",      content |-> <<"r","a","t","e","s">>],
      [role |-> "assistant", content |-> <<"H","e","r","e"," ","i","s"," ","t","h","e"," ","n","e","w","s">>] }

EnhanceHistories ==
    UNION { [1..n -> EnhanceTurnPool] : n \in 0..MaxEnhanceHistory }

EnhanceStart ==
    /\ enhanceMessage \in EnhanceMessagePool
    /\ enhanceHistory \in EnhanceHistories
    /\ enhancedQuery = <<>>
    /\ enhancePc = "call"

\* the enhancer when it is not the component under study
EnhanceIdle ==
    /\ enhanceMessage = <<>>
    /\ enhanceHistory = <<>>
    /\ enhancedQuery = <<>>
    /\ enhancePc = "idle"

\* one call of enhanceQueryWithContext(enhanceMessage, enhanceHistory)
EnhanceQueryWithContext ==
    /\ enhancePc = "call"
    /\ enhancedQuery' = enhanceQueryWithContext(enhanceMessage, enhanceHistory)
    /\ enhancePc' = "returned"
    /\ UNCHANGED <<enhanceMessage, enhanceHistory>>
    /\ UNCHANGED <<rankVars, ctxVars, intentVars, chatVars, filterVars, chunkVars, normVars, turnVars, snippetVars, searchVars, embedVars, pipelineVars, refreshVars, deleteVars>>

-----------------------------------------------------------------------------
(* The snippet generator: RAGRetrievalService.generateSnippet.              *)

Max(a, b) == IF a >= b THEN a ELSE b

Min(a, b) == IF a <= b THEN a ELSE b

\* String.prototype.substring(from, to), counted from 0, for from <= to
Substring(s, from, to) == SubSeq(s, Max(0, from) + 1, Min(to, Len(s)))

\* String.prototype.indexOf: counted from 0, -1 if t does not occur
IndexOf(s, t) == IndexOfFrom(s, t, 1) - 1

\* half the width of the window around a matching term
snippetWindow == 50

defaultSnippetLength == 200

\* queryTerms.filter(t => lowerContent.substring(...).includes(t)).length
ContextScore(queryTerms, lowerContent, position) ==
    LET window == Substring(lowerContent, Max(0, position - snippetWindow),
                            position + snippetWindow)
    IN  Len(SelectSeq(queryTerms, LAMBDA t : Includes(window, t)))

\* the loop over the query terms from the k-th on; the value is bestPosition
RECURSIVE BestPositionLoop(_, _, _, _, _)
BestPositionLoop(queryTerms, lowerContent, k, bestPosition, bestScore) ==
    IF k > Len(queryTerms) THEN bestPosition
    ELSE LET position == IndexOf(lowerContent, queryTerms[k])
             contextScore == ContextScore(queryTerms, lowerContent, position)
         IN  IF position # -1 /\ contextScore > bestScore
             THEN BestPositionLoop(queryTerms, lowerContent, k + 1,
                                   Max(0, position - snippetWindow), contextScore)
             ELSE BestPositionLoop(queryTerms, lowerContent, k + 1,
                                   bestPosition, bestScore)

BestPosition(content, text) ==
    BestPositionLoop(SplitWords(toLowerCase(text)), toLowerCase(content), 1, 0, 0)

\* snippet.replace(/^\S*\s/, '')
StripLeadingWord(s) ==
    LET spaces == { i \in 1..Len(s) : IsSpace(s[i]) }
    IN  IF spaces = {} THEN s
        ELSE SubSeq(s, (CHOOSE i \in spaces : \A j \in spaces : i <= j) + 1, Len(s))

\* snippet.replace(/\s\S*$/, '')
StripTrailingWord(s) ==
    LET spaces == { i \in 1..Len(s) : IsSpace(s[i]) }
    IN  IF spaces = {} THEN s
        ELSE SubSeq(s, 1, (CHOOSE i \in spaces : \A j \in spaces : j <= i) - 1)

Ellipsis == <<".", ".", ".">>

generateSnippet(content, text, maxLength) ==
    LET bestPosition == BestPosition(content, text)
        snippet == Substring(content, bestPosition, bestPosition + maxLength)
        cleanSnippet == StripTrailingWord(StripLeadingWord(snippet))
    IN  cleanSnippet
            \o (IF bestPosition + maxLength < Len(content) THEN Ellipsis ELSE <<>>)

(* Inputs of the snippet generator. *)

\* n characters of text without any query term: words of five letters
Filler(n) == [i \in 1..n |-> IF i % 6 = 0 THEN " " ELSE "z"]

\* the distances between the passages of a content
FillerLengths == {6, 60, 120}

\* a first "AI", a first "news" and a passage with both, set apart by filler
PassageContent(a, b) ==
    <<"A","I"," ">> \o Filler(a) \o <<"n","e","w","s"," ">> \o Filler(b) \o <<"A","I"," ","n","e","w","s"," ","t","o","d","a","y">>

SnippetContents ==
    { PassageContent(a, b) : a \in FillerLengths, b \in FillerLengths }
        \cup { Filler(30), <<"A","I"," ","n","e","w","s">> }

SnippetQueries ==
    { <<"a","i"," ","n","e","w","s">>, <<"n","e","w","s"," ","a","i">>, <<"A","I">>, <<"n","e","w","s">>, <<"b","u","d","g","e","t">>, <<"a","i"," "," ","a","i"," ","n","e","w","s">> }

SnippetLengths == {defaultSnippetLength, 40}

SnippetStart ==
    /\ snippetContent \in SnippetContents
    /\ snippetQuery \in SnippetQueries
    /\ snippetMaxLength \in SnippetLengths
    /\ snippetAnchor = 0
    /\ snippetText = <<>>
    /\ snippetPc = "call"

\* the generator when it is not the component under study
SnippetIdle ==
    /\ snippetContent = <<>>
    /\ snippetQuery = <<>>
    /\ snippetMaxLength = 0
    /\ snippetAnchor = 0
    /\ snippetText = <<>>
    /\ snippetPc = "idle"

\* one call of generateSnippet(snippetContent, snippetQuery, snippetMaxLength)
GenerateSnippet ==
    /\ snippetPc = "call"
    /\ snippetAnchor' = BestPosition(snippetContent, snippetQuery)
    /\ snippetText' = generateSnippet(snippetContent, snippetQuery, snippetMaxLength)
    /\ snippetPc' = "returned"
    /\ UNCHANGED <<snippetContent, snippetQuery, snippetMaxLength>>
    /\ UNCHANGED <<rankVars, ctxVars, intentVars, chatVars, filterVars, chunkVars, normVars, turnVars, enhanceVars, searchVars, embedVars, pipelineVars, refreshVars, deleteVars>>

-----------------------------------------------------------------------------
(* The search and its cache: RAGRetrievalService.searchDocuments with       *)
(* getCachedResult, cacheResult and generateCacheKey, over Redis and Qdrant. *)

defaultTopK == 5

\* minSimilarityScore 0.3, in the unit of the scores
minSimilarityScore == 30000

\* options.topK || this.defaultTopK
OrDefaultNumber(value, default) == IF value # 0 THEN value ELSE default

\* the key parts joined by ':'; the parts are kept apart as fields; the
\* first 16 hex digits of the SHA-256 of the query stand for the query and
\* JSON.stringify(filters) for the filters (different on different values
\* of the pools)
generateCacheKey(text, options) ==
    [ queryHash |-> text,
      topK      |-> OrDefaultNumber(options.topK, defaultTopK),
      minScore  |-> OrDefaultNumber(options.minScore, minSimilarityScore),
      filters   |-> options.filters ]

\* the options cacheResult and getCachedResult are given: { topK, minScore,
\* filters }
KeyOptions(call) ==
    [ topK |-> call.topK, minScore |-> call.minScore, filters |-> call.filters ]

(* Qdrant: the collection and its search. *)

SourceFilter == "sources:Reuters"

\* the points of the collection with their score against each query, by
\* falling score; no point matches the query about the budget
Collection(text) ==
    IF text = <<"f","e","d"," ","r","a","t","e","s">>
    THEN << [id |-> 1, score |-> 90000, title |-> T_FedRaisesRates, source |-> "AP"],
            [id |-> 4, score |-> 85000, title |-> T_FedRaisesRatesUpper, source |-> "Reuters"],
            [id |-> 3, score |-> 80000, title |-> T_StockMarketFalls, source |-> "Reuters"],
            [id |-> 7, score |-> 20000, title |-> T_FedRaisesInterestRates, source |-> "AP"] >>
    ELSE <<>>

\* qdrantService.search: the first `limit` points that pass the filter and
\* the score threshold, with their payload on request
QdrantSearch(text, limit, filter, withPayload, scoreThreshold) ==
    LET passing == SelectSeq(Collection(text),
                       LAMBDA point : /\ point.score >= scoreThreshold
                                      /\ filter = SourceFilter => point.source = "Reuters")
        first == SubSeq(passing, 1, IF Len(passing) < limit THEN Len(passing) ELSE limit)
    IN  [i \in 1..Len(first) |->
            [ id    |-> first[i].id,
              score |-> first[i].score,
              title |-> IF withPayload THEN first[i].title ELSE Undefined ]]

\* no result yet
NoSearchResult ==
    [ results |-> <<>>, total_found |-> 0, returned |-> 0, min_score |-> 0,
      filters_applied |-> FALSE, cached |-> FALSE, cache_hit |-> FALSE,
      made |-> FALSE ]

\* finalResult of lines 104-120 (cache_hit FALSE: the property is absent)
FinalResult(call, searchResults, processedResults) ==
    [ results |-> processedResults,
      total_found |-> Len(searchResults),
      returned |-> Len(processedResults),
      min_score |-> call.minScore,
      filters_applied |-> call.filters # "{}",
      cached |-> FALSE,
      cache_hit |-> FALSE,
      made |-> TRUE ]

\* lines 76-100 for a call: the hits of Qdrant, ranked
SearchResultsOf(call) ==
    QdrantSearch(call.query, IF call.topK * 2 < maxTopK THEN call.topK * 2 ELSE maxTopK,
                 call.filters, call.includeMetadata, call.minScore)

ProcessedResultsOf(call) ==
    postProcessResults(SearchResultsOf(call),
        [ targetCount |-> call.topK,
          diversityThreshold |-> call.diversityThreshold,
          includeMetadata |-> call.includeMetadata ])

\* a variant that caches whatever was found
ShouldCache_Always(call, processedResults) == call.useCache

\* useCache && processedResults.length > 0
ShouldCache(call, processedResults) ==
    call.useCache /\ Len(processedResults) > 0

\* result.metadata.cached = true, on the object given to cacheResult
CachedMark(result) == [result EXCEPT !.cached = TRUE]

(* Inputs of the search. *)

MaxSearches == 3

Q_FedRates == <<"f","e","d"," ","r","a","t","e","s">>
Q_Budget == <<"b","u","d","g","e","t">>

\* the options after the defaults of lines 45-52
BaseOptions ==
    [ query |-> Q_FedRates, topK |-> defaultTopK, minScore |-> minSimilarityScore,
      filters |-> "{}", useCache |-> TRUE, includeMetadata |-> TRUE,
      diversityThreshold |-> defaultDiversityThreshold ]

SearchOptionsPool ==
    { BaseOptions,
      [BaseOptions EXCEPT !.diversityThreshold = 1000],
      [BaseOptions EXCEPT !.includeMetadata = FALSE],
      [BaseOptions EXCEPT !.useCache = FALSE],
      [BaseOptions EXCEPT !.topK = 1],
      [BaseOptions EXCEPT !.minScore = 0],
      [BaseOptions EXCEPT !.filters = SourceFilter],
      [BaseOptions EXCEPT !.query = Q_Budget],
      [BaseOptions EXCEPT !.topK = maxTopK + 1] }

EmptyCache == [key \in {} |-> NoSearchResult]

\* no call
IdleSearch ==
    [ pc |-> "idle", options |-> BaseOptions, lookup |-> "none", computed |-> FALSE,
      result |-> NoSearchResult, answeredBy |-> BaseOptions ]

SearchStart ==
    /\ searchCache = EmptyCache
    /\ search = [IdleSearch EXCEPT !.pc = "ready"]
    /\ searchCount = 0

\* the search when it is not the component under study
SearchIdle ==
    /\ searchCache = EmptyCache
    /\ search = IdleSearch
    /\ searchCount = 0

\* searchDocuments(query, options) is called: the inputs are validated,
\* then the cache is asked, or, without the cache, the embedding
SearchDocuments ==
    /\ search.pc \in {"ready", "returned", "threw"}
    /\ searchCount < MaxSearches
    /\ \E options \in SearchOptionsPool :
          search' = [IdleSearch EXCEPT
                        !.options = options,
                        !.pc = IF options.topK > maxTopK THEN "threw"
                               ELSE IF options.useCache THEN "getCachedResult"
                               ELSE "generateEmbedding"]
    /\ searchCount' = searchCount + 1
    /\ UNCHANGED searchCache
    /\ UNCHANGED <<rankVars, ctxVars, intentVars, chatVars, filterVars, chunkVars, normVars, turnVars, enhanceVars, snippetVars, embedVars, pipelineVars, refreshVars, deleteVars>>

\* getCachedResult: redisService.get answers; a stored value is returned
\* with cached and cache_hit set, an error of Redis is taken as a miss
GetCachedResult ==
    /\ search.pc = "getCachedResult"
    /\ LET cacheKey == generateCacheKey(search.options.query, KeyOptions(search.options))
       IN  \/ /\ cacheKey \in DOMAIN searchCache
              /\ search' = [search EXCEPT
                    !.pc = "returned",
                    !.lookup = "hit",
                    !.result = [searchCache[cacheKey].value EXCEPT
                                   !.cached = TRUE, !.cache_hit = TRUE],
                    !.answeredBy = searchCache[cacheKey].storedBy]
           \/ /\ cacheKey \notin DOMAIN searchCache
              /\ search' = [search EXCEPT !.pc = "generateEmbedding", !.lookup = "miss"]
           \/ search' = [search EXCEPT !.pc = "generateEmbedding", !.lookup = "error"]
    /\ UNCHANGED <<searchCache, searchCount>>
    /\ UNCHANGED <<rankVars, ctxVars, intentVars, chatVars, filterVars, chunkVars, normVars, turnVars, enhanceVars, snippetVars, embedVars, pipelineVars, refreshVars, deleteVars>>

\* preprocessQuery, then jinaService.generateEmbedding answers or fails
GenerateEmbedding ==
    /\ search.pc = "generateEmbedding"
    /\ \/ search' = [search EXCEPT !.pc = "qdrantSearch"]
       \/ search' = [search EXCEPT !.pc = "threw"]
    /\ UNCHANGED <<searchCache, searchCount>>
    /\ UNCHANGED <<rankVars, ctxVars, intentVars, chatVars, filterVars, chunkVars, normVars, turnVars, enhanceVars, snippetVars, embedVars, pipelineVars, refreshVars, deleteVars>>

\* qdrantService.search answers or fails; postProcessResults, enhanceResults
\* and finalResult; a result with hits goes to the cache when it is in use
SearchQdrant ==
    /\ search.pc = "qdrantSearch"
    /\ \/ LET processedResults == ProcessedResultsOf(search.options)
          IN  search' = [search EXCEPT
                  !.pc = IF ShouldCache(search.options, processedResults)
                         THEN "cacheResult" ELSE "returned",
                  !.computed = TRUE,
                  !.result = FinalResult(search.options,
                                 SearchResultsOf(search.options), processedResults)]
       \/ search' = [search EXCEPT !.pc = "threw"]
    /\ UNCHANGED <<searchCache, searchCount>>
    /\ UNCHANGED <<rankVars, ctxVars, intentVars, chatVars, filterVars, chunkVars, normVars, turnVars, enhanceVars, snippetVars, embedVars, pipelineVars, refreshVars, deleteVars>>

\* cacheResult: the result is marked, serialised and set under its key; an
\* error of Redis is logged and swallowed; the marked object is finalResult
CacheResult ==
    /\ search.pc = "cacheResult"
    /\ LET cacheKey == generateCacheKey(search.options.query, KeyOptions(search.options))
           entry == [ value |-> CachedMark(search.result),
                      storedBy |-> search.options ]
       IN  \/ searchCache' =
                  [key \in DOMAIN searchCache \cup {cacheKey} |->
                      IF key = cacheKey THEN entry ELSE searchCache[key]]
           \/ UNCHANGED searchCache
    /\ search' = [search EXCEPT !.pc = "returned", !.result = CachedMark(@)]
    /\ UNCHANGED searchCount
    /\ UNCHANGED <<rankVars, ctxVars, intentVars, chatVars, filterVars, chunkVars, normVars, turnVars, enhanceVars, snippetVars, embedVars, pipelineVars, refreshVars, deleteVars>>

\* Redis drops an entry when its time to live (cacheTTL) is over
CacheEntryExpires ==
    /\ \E cacheKey \in DOMAIN searchCache :
          searchCache' = [key \in DOMAIN searchCache \ {cacheKey} |-> searchCache[key]]
    /\ UNCHANGED <<search, searchCount>>
    /\ UNCHANGED <<rankVars, ctxVars, intentVars, chatVars, filterVars, chunkVars, normVars, turnVars, enhanceVars, snippetVars, embedVars, pipelineVars, refreshVars, deleteVars>>

-----------------------------------------------------------------------------
(* The embedding call and its retries: JinaEmbeddingService.processBatch,   *)
(* and what a chat turn makes of its failure (getRAGContext, processMessage *)
(* and the catch of the chat route).                                        *)

maxRetries == 3

\* milliseconds
retryDelay == 2000

\* what can go wrong with one POST to the embedding API
EmbedErrors == {"network", "status", "invalid_format"}

\* a variant that retries once more
ShouldRetry_Inclusive(retryCount) == retryCount <= maxRetries

\* retryCount < this.maxRetries
ShouldRetry(retryCount) == retryCount < maxRetries

\* this.retryDelay * (retryCount + 1)
DelayBeforeRetry(retryCount) == retryDelay * (retryCount + 1)

\* the response of the chat route's catch around processMessage
ErrorFallbackResponse ==
    [ content  |-> KeyOf(X_TechnicalDifficulties),
      metadata |-> [NoMetadata EXCEPT !.fallback_used = "true",
                                      !.model = "error_fallback"],
      made     |-> TRUE ]

EmbedStart ==
    /\ embed = [ pc |-> "post", retryCount |-> 0, errors |-> <<>>, waits |-> <<>>,
                 contexts |-> -1, response |-> NoResponse ]

\* the embedding call when it is not the component under study
EmbedIdle ==
    /\ embed = [ pc |-> "idle", retryCount |-> 0, errors |-> <<>>, waits |-> <<>>,
                 contexts |-> -1, response |-> NoResponse ]

\* processBatch(texts, retryCount): the POST is answered with embeddings,
\* or it fails (an answer of another format is thrown into the same catch);
\* a failure is retried after a delay or, with no retry left, thrown on
\* through generateEmbeddings, generateEmbedding and searchDocuments
ProcessBatchPost ==
    /\ embed.pc = "post"
    /\ \/ embed' = [embed EXCEPT !.pc = "embedded"]
       \/ \E error \in EmbedErrors :
             embed' = [embed EXCEPT
                          !.errors = Append(@, error),
                          !.pc = IF ShouldRetry(embed.retryCount)
                                 THEN "delay" ELSE "threw"]
    /\ UNCHANGED <<rankVars, ctxVars, intentVars, chatVars, filterVars, chunkVars, normVars, turnVars, enhanceVars, snippetVars, searchVars, pipelineVars, refreshVars, deleteVars>>

\* the delay before the retry is over: processBatch(texts, retryCount + 1)
ProcessBatchRetry ==
    /\ embed.pc = "delay"
    /\ embed' = [embed EXCEPT
                    !.waits = Append(@, DelayBeforeRetry(embed.retryCount)),
                    !.retryCount = @ + 1,
                    !.pc = "post"]
    /\ UNCHANGED <<rankVars, ctxVars, intentVars, chatVars, filterVars, chunkVars, normVars, turnVars, enhanceVars, snippetVars, searchVars, pipelineVars, refreshVars, deleteVars>>

\* getRAGContext catches what searchDocuments threw and returns no contexts;
\* processMessage then awaits the fallback response
GetRAGContextCatch ==
    /\ embed.pc = "threw"
    /\ embed' = [embed EXCEPT !.pc = "generate", !.contexts = 0]
    /\ UNCHANGED <<rankVars, ctxVars, intentVars, chatVars, filterVars, chunkVars, normVars, turnVars, enhanceVars, snippetVars, searchVars, pipelineVars, refreshVars, deleteVars>>

\* generateFallbackResponse returns, or the generation fails as well and the
\* route answers with its own fallback
GenerateAfterFailure ==
    /\ embed.pc = "generate"
    /\ \/ embed' = [embed EXCEPT !.pc = "responded",
                                 !.response = ProcessedResponse("fallback")]
       \/ embed' = [embed EXCEPT !.pc = "responded",
                                 !.response = ErrorFallbackResponse]
    /\ UNCHANGED <<rankVars, ctxVars, intentVars, chatVars, filterVars, chunkVars, normVars, turnVars, enhanceVars, snippetVars, searchVars, pipelineVars, refreshVars, deleteVars>>

-----------------------------------------------------------------------------
(* The embedding pipeline: EmbeddingPipeline.runPipeline with its           *)
(* checkpoint file, over the embedding API and the vector store.            *)

\* the chunks of data/processed/latest.json, by their position
TotalChunks == 4

AllChunks == 1..TotalChunks

\* the batch sizes a run is given (50 when none is given)
PipelineBatchSizes == {2, 3}

MaxPipelineRuns == 3

NoCheckpoint == [present |-> FALSE, processedCount |-> 0, totalChunks |-> 0]

\* getResumePoint: the processedCount of a checkpoint for this chunk file,
\* 0 without a checkpoint or with one for another number of chunks
getResumePoint(file, totalChunks) ==
    IF file.present /\ file.totalChunks = totalChunks /\ file.processedCount > 0
    THEN file.processedCount
    ELSE 0

IdlePipeline ==
    [ pc |-> "idle", resumeFromCheckpoint |-> TRUE, clearExistingData |-> FALSE,
      batchSize |-> 0, startIndex |-> 0, i |-> 0, results |-> {} ]

PipelineStart ==
    /\ pipeline = [IdlePipeline EXCEPT !.pc = "ready"]
    /\ checkpointFile = NoCheckpoint
    /\ vectorStore = {}
    /\ pipelineRuns = 0

\* the pipeline when it is not the component under study
PipelineIdle ==
    /\ pipeline = IdlePipeline
    /\ checkpointFile = NoCheckpoint
    /\ vectorStore = {}
    /\ pipelineRuns = 0

\* runPipeline(options) is called, first or after an earlier run ended
RunPipeline ==
    /\ pipeline.pc \in {"ready", "completed", "failed"}
    /\ pipelineRuns < MaxPipelineRuns
    /\ \E resume \in BOOLEAN, clear \in BOOLEAN, size \in PipelineBatchSizes :
          pipeline' = [IdlePipeline EXCEPT !.pc = "initializeServices",
                                           !.resumeFromCheckpoint = resume,
                                           !.clearExistingData = clear,
                                           !.batchSize = size]
    /\ pipelineRuns' = pipelineRuns + 1
    /\ UNCHANGED <<checkpointFile, vectorStore>>
    /\ UNCHANGED <<rankVars, ctxVars, intentVars, chatVars, filterVars, chunkVars, normVars, turnVars, enhanceVars, snippetVars, searchVars, embedVars, refreshVars, deleteVars>>

\* initializeServices (the collection is cleared on request), then
\* loadProcessedChunks and getResumePoint; with nothing left to process the
\* run ends with the statistics
InitializeServices ==
    /\ pipeline.pc = "initializeServices"
    /\ \/ LET startIndex == IF pipeline.resumeFromCheckpoint
                            THEN getResumePoint(checkpointFile, TotalChunks)
                            ELSE 0
          IN  /\ pipeline' = [pipeline EXCEPT
                     !.startIndex = startIndex,
                     !.pc = IF startIndex >= TotalChunks THEN "completed"
                            ELSE "generateEmbeddings"]
              /\ vectorStore' = IF pipeline.clearExistingData THEN {} ELSE vectorStore
       \/ /\ pipeline' = [pipeline EXCEPT !.pc = "failed"]
          /\ UNCHANGED vectorStore
    /\ UNCHANGED <<checkpointFile, pipelineRuns>>
    /\ UNCHANGED <<rankVars, ctxVars, intentVars, chatVars, filterVars, chunkVars, normVars, turnVars, enhanceVars, snippetVars, searchVars, embedVars, refreshVars, deleteVars>>

\* the chunks of chunksToProcess from position i (counted from 0) on, one
\* batch long
BatchAt(startIndex, i, batchSize) ==
    { c \in AllChunks : /\ c > startIndex + i
                        /\ c <= startIndex + i + batchSize }

\* generateEmbeddingsWithProgress, one batch: generateChunkEmbeddings
\* answers, the batch joins the results and the checkpoint is saved (a
\* failed write is only logged); or the embedding fails and the run ends in
\* the catch of runPipeline
GenerateBatch ==
    /\ pipeline.pc = "generateEmbeddings"
    /\ \/ LET batch == BatchAt(pipeline.startIndex, pipeline.i, pipeline.batchSize)
              next == pipeline.i + pipeline.batchSize
          IN  /\ pipeline' = [pipeline EXCEPT
                     !.results = @ \cup batch,
                     !.i = next,
                     !.pc = IF next < TotalChunks - pipeline.startIndex
                            THEN "generateEmbeddings" ELSE "storeEmbeddings"]
              /\ \/ checkpointFile' =
                        [ present |-> TRUE,
                          processedCount |-> pipeline.startIndex + pipeline.i
                                                + Cardinality(batch),
                          totalChunks |-> TotalChunks ]
                 \/ UNCHANGED checkpointFile
       \/ /\ pipeline' = [pipeline EXCEPT !.pc = "failed"]
          /\ UNCHANGED checkpointFile
    /\ UNCHANGED <<vectorStore, pipelineRuns>>
    /\ UNCHANGED <<rankVars, ctxVars, intentVars, chatVars, filterVars, chunkVars, normVars, turnVars, enhanceVars, snippetVars, searchVars, embedVars, refreshVars, deleteVars>>

\* storeEmbeddings: the embedded chunks of this run are inserted, or the
\* insertion fails
StoreEmbeddings ==
    /\ pipeline.pc = "storeEmbeddings"
    /\ \/ /\ vectorStore' = vectorStore \cup pipeline.results
          /\ pipeline' = [pipeline EXCEPT !.pc = "setupSearchOptimizations"]
       \/ /\ pipeline' = [pipeline EXCEPT !.pc = "failed"]
          /\ UNCHANGED vectorStore
    /\ UNCHANGED <<checkpointFile, pipelineRuns>>
    /\ UNCHANGED <<rankVars, ctxVars, intentVars, chatVars, filterVars, chunkVars, normVars, turnVars, enhanceVars, snippetVars, searchVars, embedVars, refreshVars, deleteVars>>

\* setupSearchOptimizations, then cleanupProgressFiles (the checkpoint stays
\* when an unlink fails) and the statistics
FinishPipeline ==
    /\ pipeline.pc = "setupSearchOptimizations"
    /\ \/ /\ pipeline' = [pipeline EXCEPT !.pc = "completed"]
          /\ \/ checkpointFile' = NoCheckpoint
             \/ UNCHANGED checkpointFile
       \/ /\ pipeline' = [pipeline EXCEPT !.pc = "failed"]
          /\ UNCHANGED checkpointFile
    /\ UNCHANGED <<vectorStore, pipelineRuns>>
    /\ UNCHANGED <<rankVars, ctxVars, intentVars, chatVars, filterVars, chunkVars, normVars, turnVars, enhanceVars, snippetVars, searchVars, embedVars, refreshVars, deleteVars>>

-----------------------------------------------------------------------------
(* The daily refresh of the article corpus:                                 *)
(* DailyNewsRefreshService.performDailyRefresh over scraped_articles.json.  *)
(* An article is kept as the day it was published.                          *)

\* parseInt(process.env.MAX_ARTICLES) || 50
maxArticles == 50

\* parseInt(process.env.NEWS_RETENTION_DAYS) || 7
retentionDays == 7

\* the feeds of RSS_SOURCES
NumSources == 7

\* the most articles taken from one feed in one run
perSourceLimit == 8

\* the days that pass and the refresh runs that start
MaxDay == 8
MaxRefreshRuns == 2

\* the numbers of articles of the last 24 hours a feed may hold
FeedSizes == {0, 4, 10}

\* articles.filter(article => articleDate > cutoffDate)
FreshArticles(articles, now) ==
    SelectSeq(articles, LAMBDA published : published > now - retentionDays)

\* todayArticles.slice(0, Math.min(remainingSlots, 8)).length
ArticlesToAdd(todayCount, totalScraped) ==
    LET remainingSlots == maxArticles - totalScraped
        most == IF remainingSlots < perSourceLimit THEN remainingSlots
                ELSE perSourceLimit
    IN  IF todayCount < most THEN todayCount ELSE most

IdleRefresh == [pc |-> "idle", source |-> 0, totalScraped |-> 0]

RefreshStart ==
    /\ refresh = [IdleRefresh EXCEPT !.pc = "ready"]
    /\ articlesFile = <<>>
    /\ today = 0
    /\ refreshRuns = 0

\* the refresh when it is not the component under study
RefreshIdle ==
    /\ refresh = IdleRefresh
    /\ articlesFile = <<>>
    /\ today = 0
    /\ refreshRuns = 0

\* a day passes between two runs
NextDay ==
    /\ refresh.pc \in {"ready", "done", "failed"}
    /\ today < MaxDay
    /\ today' = today + 1
    /\ UNCHANGED <<refresh, articlesFile, refreshRuns>>
    /\ UNCHANGED <<rankVars, ctxVars, intentVars, chatVars, filterVars, chunkVars, normVars, turnVars, enhanceVars, snippetVars, searchVars, embedVars, pipelineVars, deleteVars>>

\* performDailyRefresh is started, by the schedule or by manualRefresh
PerformDailyRefresh ==
    /\ refresh.pc \in {"ready", "done", "failed"}
    /\ refreshRuns < MaxRefreshRuns
    /\ refresh' = [IdleRefresh EXCEPT !.pc = "removeOldArticles"]
    /\ refreshRuns' = refreshRuns + 1
    /\ UNCHANGED <<articlesFile, today>>
    /\ UNCHANGED <<rankVars, ctxVars, intentVars, chatVars, filterVars, chunkVars, normVars, turnVars, enhanceVars, snippetVars, searchVars, embedVars, pipelineVars, deleteVars>>

\* removeOldArticles: the articles past the retention period leave the file
\* and the vector store; the file is written only when some article left;
\* a failed write or a failed deletion of the embeddings ends the run
RemoveOldArticles ==
    /\ refresh.pc = "removeOldArticles"
    /\ LET freshArticles == FreshArticles(articlesFile, today)
           removedCount == Len(articlesFile) - Len(freshArticles)
       IN  \/ /\ articlesFile' = freshArticles
              /\ refresh' = [refresh EXCEPT !.pc = "scrapeFreshNews", !.source = 1]
           \/ /\ removedCount > 0
              /\ articlesFile' = freshArticles
              /\ refresh' = [refresh EXCEPT !.pc = "failed"]
           \/ /\ removedCount > 0
              /\ UNCHANGED articlesFile
              /\ refresh' = [refresh EXCEPT !.pc = "failed"]
    /\ UNCHANGED <<today, refreshRuns>>
    /\ UNCHANGED <<rankVars, ctxVars, intentVars, chatVars, filterVars, chunkVars, normVars, turnVars, enhanceVars, snippetVars, searchVars, embedVars, pipelineVars, deleteVars>>

\* scrapeFreshNews, one turn of its loop: the feed of the source is scraped
\* (a failure is logged and the source skipped) unless the limit is reached
ScrapeSource ==
    /\ refresh.pc = "scrapeFreshNews"
    /\ refresh.source <= NumSources
    /\ refresh.totalScraped < maxArticles
    /\ \/ \E todayCount \in FeedSizes :
             refresh' = [refresh EXCEPT
                 !.totalScraped = @ + ArticlesToAdd(todayCount, refresh.totalScraped),
                 !.source = @ + 1]
       \/ refresh' = [refresh EXCEPT !.source = @ + 1]
    /\ UNCHANGED <<articlesFile, today, refreshRuns>>
    /\ UNCHANGED <<rankVars, ctxVars, intentVars, chatVars, filterVars, chunkVars, normVars, turnVars, enhanceVars, snippetVars, searchVars, embedVars, pipelineVars, deleteVars>>

\* the loop is left, and processAndEmbedArticles: the new articles are put
\* after the existing ones and the file is written, unless there are none
ProcessAndEmbedArticles ==
    /\ refresh.pc = "scrapeFreshNews"
    /\ refresh.source > NumSources \/ refresh.totalScraped >= maxArticles
    /\ \/ /\ articlesFile' =
                 articlesFile \o [k \in 1..refresh.totalScraped |-> today]
          /\ refresh' = [refresh EXCEPT !.pc = "updateVectorDatabase"]
       \/ /\ refresh.totalScraped > 0
          /\ UNCHANGED articlesFile
          /\ refresh' = [refresh EXCEPT !.pc = "failed"]
    /\ UNCHANGED <<today, refreshRuns>>
    /\ UNCHANGED <<rankVars, ctxVars, intentVars, chatVars, filterVars, chunkVars, normVars, turnVars, enhanceVars, snippetVars, searchVars, embedVars, pipelineVars, deleteVars>>

\* updateVectorDatabase, cleanupAndOptimize and sendRefreshSummary
UpdateVectorDatabase ==
    /\ refresh.pc = "updateVectorDatabase"
    /\ \/ refresh' = [refresh EXCEPT !.pc = "done"]
       \/ /\ refresh.totalScraped > 0
          /\ refresh' = [refresh EXCEPT !.pc = "failed"]
    /\ UNCHANGED <<articlesFile, today, refreshRuns>>
    /\ UNCHANGED <<rankVars, ctxVars, intentVars, chatVars, filterVars, chunkVars, normVars, turnVars, enhanceVars, snippetVars, searchVars, embedVars, pipelineVars, deleteVars>>

-----------------------------------------------------------------------------
(* DELETE /api/chat/:sessionId with RedisService.deleteSession, next to the *)
(* chat requests of the same session.                                       *)

NoDeleteReply == [sent |-> FALSE, statusCode |-> 0, messages_deleted |-> 0]

IdleDeleteRequest ==
    [ pc           |-> "off",
      messageCount |-> 0,           \* session.messageCount, as getSession read it
      reply        |-> NoDeleteReply ]

\* asyncHandler: an error thrown by the delete handler goes to errorHandler
DeleteThrown(req, err) ==
    [req EXCEPT !.pc = "done",
                !.reply = [NoDeleteReply EXCEPT
                              !.sent = TRUE,
                              !.statusCode = errorHandler(err).statusCode]]

DeleteStart == deleteRq = [IdleDeleteRequest EXCEPT !.pc = "idle"]

\* the route when it is not the component under study
DeleteIdle == deleteRq = IdleDeleteRequest

\* the handler up to its first await: the session id is validated
DeleteReceive ==
    /\ deleteRq.pc = "idle"
    /\ \/ deleteRq' = [deleteRq EXCEPT !.pc = "gs_hGetAll"]
       \/ deleteRq' = DeleteThrown(deleteRq, "ValidationError")
    /\ UNCHANGED chatVars
    /\ UNCHANGED <<rankVars, ctxVars, intentVars, filterVars, chunkVars, normVars, turnVars, enhanceVars, snippetVars, searchVars, embedVars, pipelineVars, refreshVars>>

\* getSession: hGetAll; no session is a NotFoundError
DeleteGetSession ==
    /\ deleteRq.pc = "gs_hGetAll"
    /\ \/ deleteRq' =
             IF sessionHash.exists
             THEN [deleteRq EXCEPT !.pc = "gs_touch",
                                   !.messageCount = sessionHash.messageCount]
             ELSE DeleteThrown(deleteRq, "NotFoundError")
       \/ deleteRq' = DeleteThrown(deleteRq, "RedisError")
    /\ UNCHANGED chatVars
    /\ UNCHANGED <<rankVars, ctxVars, intentVars, filterVars, chunkVars, normVars, turnVars, enhanceVars, snippetVars, searchVars, embedVars, pipelineVars, refreshVars>>

\* getSession, after the read: updateSessionActivity
DeleteTouch ==
    /\ deleteRq.pc = "gs_touch"
    /\ \E ok \in BOOLEAN : sessionHash' = TouchedHash(ok)
    /\ deleteRq' = [deleteRq EXCEPT !.pc = "multi"]
    /\ UNCHANGED <<ragChatInitialized, messagesList, rq>>
    /\ UNCHANGED <<rankVars, ctxVars, intentVars, filterVars, chunkVars, normVars, turnVars, enhanceVars, snippetVars, searchVars, embedVars, pipelineVars, refreshVars>>

\* deleteSession: del(sessionKey) and del(messagesKey) in one transaction,
\* then res.json; a rejected transaction deletes nothing
DeleteSession ==
    /\ deleteRq.pc = "multi"
    /\ \/ /\ sessionHash' = EmptySessionHash
          /\ messagesList' = <<>>
          /\ deleteRq' = [deleteRq EXCEPT
                 !.pc = "done",
                 !.reply = [ sent |-> TRUE, statusCode |-> 200,
                             messages_deleted |-> deleteRq.messageCount ]]
       \/ /\ deleteRq' = DeleteThrown(deleteRq, "RedisError")
          /\ UNCHANGED <<sessionHash, messagesList>>
    /\ UNCHANGED <<ragChatInitialized, rq>>
    /\ UNCHANGED <<rankVars, ctxVars, intentVars, filterVars, chunkVars, normVars, turnVars, enhanceVars, snippetVars, searchVars, embedVars, pipelineVars, refreshVars>>

-----------------------------------------------------------------------------
(* The chat specification.                                                  *)

Init == ChatStart /\ RankIdle /\ CtxIdle /\ IntentIdle /\ FilterIdle /\ ChunkIdle /\ NormIdle
    /\ TurnIdle
    /\ EnhanceIdle
    /\ SnippetIdle
    /\ SearchIdle
    /\ EmbedIdle
    /\ PipelineIdle
    /\ RefreshIdle
    /\ DeleteIdle

Next ==
    \/ RagChatInitialize
    \/ \E r \in Requests :
          \/ Receive(r)
          \/ GetSessionRead(r)
          \/ GetSessionTouch(r)
          \/ CreateSession(r)
          \/ AddMessagePush(r)
          \/ AddMessageLen(r)
          \/ AddMessageTrim(r)
          \/ AddMessageCount(r)
          \/ AddMessageTouch(r)
          \/ AddMessageExpire(r)
          \/ ProcessHistory(r)
          \/ SearchCacheGet(r)
          \/ SearchEmbed(r)
          \/ SearchVector(r)
          \/ SearchCacheSet(r)
          \/ Generate(r)

Spec == Init /\ [][Next]_vars

\* the chat route under the client that awaits each response: a request is
\* handled only while the client waits for it
InitTurns ==
    /\ ChatStart /\ TurnStart
    /\ RankIdle /\ CtxIdle /\ IntentIdle /\ FilterIdle /\ ChunkIdle /\ NormIdle
    /\ EnhanceIdle
    /\ SnippetIdle
    /\ SearchIdle
    /\ EmbedIdle
    /\ PipelineIdle
    /\ RefreshIdle
    /\ DeleteIdle

NextTurns ==
    \/ RagChatInitialize
    \/ ClientPost
    \/ ClientResponse
    \/ ClientGetHistory
    \/ ClientHistoryResponse
    \/ HistoryGetSession
    \/ HistoryTouch
    \/ HistoryRange
    \/ \E r \in Requests :
          /\ client.pc = "posting"
          /\ client.current = r
          /\ \/ Receive(r)
             \/ GetSessionRead(r)
             \/ GetSessionTouch(r)
             \/ CreateSession(r)
             \/ AddMessagePush(r)
             \/ AddMessageLen(r)
             \/ AddMessageTrim(r)
             \/ AddMessageCount(r)
             \/ AddMessageTouch(r)
             \/ AddMessageExpire(r)
             \/ ProcessHistory(r)
             \/ SearchCacheGet(r)
             \/ SearchEmbed(r)
             \/ SearchVector(r)
             \/ SearchCacheSet(r)
             \/ Generate(r)

SpecTurns == InitTurns /\ [][NextTurns]_vars

-----------------------------------------------------------------------------
(* Specifications of the pure components.                                   *)

InitRank == RankStart /\ CtxIdle /\ IntentIdle /\ ChatIdle /\ FilterIdle /\ ChunkIdle /\ NormIdle
    /\ TurnIdle
    /\ EnhanceIdle
    /\ SnippetIdle
    /\ SearchIdle
    /\ EmbedIdle
    /\ PipelineIdle
    /\ RefreshIdle
    /\ DeleteIdle

NextRank == PostProcessResults

SpecRank == InitRank /\ [][NextRank]_vars

InitCtx == CtxStart /\ RankIdle /\ IntentIdle /\ ChatIdle /\ FilterIdle /\ ChunkIdle /\ NormIdle
    /\ TurnIdle
    /\ EnhanceIdle
    /\ SnippetIdle
    /\ SearchIdle
    /\ EmbedIdle
    /\ PipelineIdle
    /\ RefreshIdle
    /\ DeleteIdle

NextCtx == ManageConversationContext

SpecCtx == InitCtx /\ [][NextCtx]_vars

InitIntent == IntentStart /\ RankIdle /\ CtxIdle /\ ChatIdle /\ FilterIdle /\ ChunkIdle /\ NormIdle
    /\ TurnIdle
    /\ EnhanceIdle
    /\ SnippetIdle
    /\ SearchIdle
    /\ EmbedIdle
    /\ PipelineIdle
    /\ RefreshIdle
    /\ DeleteIdle

NextIntent == ShouldUseRAGContext

SpecIntent == InitIntent /\ [][NextIntent]_vars

InitFilter == FilterStart /\ RankIdle /\ CtxIdle /\ IntentIdle /\ ChatIdle /\ ChunkIdle /\ NormIdle
    /\ TurnIdle
    /\ EnhanceIdle
    /\ SnippetIdle
    /\ SearchIdle
    /\ EmbedIdle
    /\ PipelineIdle
    /\ RefreshIdle
    /\ DeleteIdle

NextFilter == BuildQdrantFilters

SpecFilter == InitFilter /\ [][NextFilter]_vars

InitChunk ==
    /\ ChunkStart
    /\ RankIdle /\ CtxIdle /\ IntentIdle /\ ChatIdle /\ FilterIdle /\ NormIdle /\ TurnIdle
    /\ EnhanceIdle
    /\ SnippetIdle
    /\ SearchIdle
    /\ EmbedIdle
    /\ PipelineIdle
    /\ RefreshIdle
    /\ DeleteIdle

NextChunk == ChunkArticle \/ ChunkByParagraphs

SpecChunk == InitChunk /\ [][NextChunk]_vars

InitNorm ==
    /\ NormStart
    /\ RankIdle /\ CtxIdle /\ IntentIdle /\ ChatIdle /\ FilterIdle /\ ChunkIdle /\ TurnIdle
    /\ EnhanceIdle
    /\ SnippetIdle
    /\ SearchIdle
    /\ EmbedIdle
    /\ PipelineIdle
    /\ RefreshIdle
    /\ DeleteIdle

NextNorm == PreprocessQuery

SpecNorm == InitNorm /\ [][NextNorm]_vars

InitEnhance ==
    /\ EnhanceStart
    /\ ChatIdle /\ ChunkIdle /\ CtxIdle /\ FilterIdle /\ IntentIdle /\ NormIdle /\ RankIdle /\ TurnIdle
    /\ SnippetIdle
    /\ SearchIdle
    /\ EmbedIdle
    /\ PipelineIdle
    /\ RefreshIdle
    /\ DeleteIdle

NextEnhance == EnhanceQueryWithContext

SpecEnhance == InitEnhance /\ [][NextEnhance]_vars

InitSnippet ==
    /\ SnippetStart
    /\ ChatIdle /\ ChunkIdle /\ CtxIdle /\ EnhanceIdle /\ FilterIdle /\ IntentIdle /\ NormIdle /\ RankIdle /\ TurnIdle
    /\ SearchIdle
    /\ EmbedIdle
    /\ PipelineIdle
    /\ RefreshIdle
    /\ DeleteIdle

NextSnippet == GenerateSnippet

SpecSnippet == InitSnippet /\ [][NextSnippet]_vars

InitSearch ==
    /\ SearchStart
    /\ ChatIdle /\ ChunkIdle /\ CtxIdle /\ EnhanceIdle /\ FilterIdle /\ IntentIdle /\ NormIdle /\ RankIdle /\ SnippetIdle /\ TurnIdle
    /\ EmbedIdle
    /\ PipelineIdle
    /\ RefreshIdle
    /\ DeleteIdle

NextSearch ==
    \/ SearchDocuments
    \/ GetCachedResult
    \/ GenerateEmbedding
    \/ SearchQdrant
    \/ CacheResult
    \/ CacheEntryExpires

SpecSearch == InitSearch /\ [][NextSearch]_vars

InitEmbed ==
    /\ EmbedStart
    /\ ChatIdle /\ ChunkIdle /\ CtxIdle /\ EnhanceIdle /\ FilterIdle /\ IntentIdle /\ NormIdle /\ RankIdle /\ SearchIdle /\ SnippetIdle /\ TurnIdle
    /\ PipelineIdle
    /\ RefreshIdle
    /\ DeleteIdle

NextEmbed ==
    \/ ProcessBatchPost
    \/ ProcessBatchRetry
    \/ GetRAGContextCatch
    \/ GenerateAfterFailure

SpecEmbed == InitEmbed /\ [][NextEmbed]_vars

InitPipeline ==
    /\ PipelineStart
    /\ ChatIdle /\ ChunkIdle /\ CtxIdle /\ EmbedIdle /\ EnhanceIdle /\ FilterIdle /\ IntentIdle /\ NormIdle /\ RankIdle /\ SearchIdle /\ SnippetIdle /\ TurnIdle
    /\ RefreshIdle
    /\ DeleteIdle

NextPipeline ==
    \/ RunPipeline
    \/ InitializeServices
    \/ GenerateBatch
    \/ StoreEmbeddings
    \/ FinishPipeline

SpecPipeline == InitPipeline /\ [][NextPipeline]_vars

InitRefresh ==
    /\ RefreshStart
    /\ ChatIdle /\ ChunkIdle /\ CtxIdle /\ EmbedIdle /\ EnhanceIdle /\ FilterIdle /\ IntentIdle /\ NormIdle /\ PipelineIdle /\ RankIdle /\ SearchIdle /\ SnippetIdle /\ TurnIdle
    /\ DeleteIdle

NextRefresh ==
    \/ NextDay
    \/ PerformDailyRefresh
    \/ RemoveOldArticles
    \/ ScrapeSource
    \/ ProcessAndEmbedArticles
    \/ UpdateVectorDatabase

SpecRefresh == InitRefresh /\ [][NextRefresh]_vars

\* the chat requests and the delete request of one session, while the chat
\* service has not been initialized: the store calls of a chat turn
InitStore ==
    /\ ChatStart /\ DeleteStart
    /\ ChunkIdle /\ CtxIdle /\ EmbedIdle /\ EnhanceIdle /\ FilterIdle /\ IntentIdle /\ NormIdle /\ PipelineIdle /\ RankIdle /\ RefreshIdle /\ SearchIdle /\ SnippetIdle /\ TurnIdle

NextStore ==
    \/ \E r \in Requests :
          \/ Receive(r)
          \/ GetSessionRead(r)
          \/ GetSessionTouch(r)
          \/ CreateSession(r)
          \/ AddMessagePush(r)
          \/ AddMessageLen(r)
          \/ AddMessageTrim(r)
          \/ AddMessageCount(r)
          \/ AddMessageTouch(r)
          \/ AddMessageExpire(r)
    \/ DeleteReceive
    \/ DeleteGetSession
    \/ DeleteTouch
    \/ DeleteSession

SpecStore == InitStore /\ [][NextStore]_vars

-----------------------------------------------------------------------------
(* Properties of the ranker.                                                *)

\* the hit a returned result was formatted from
HitOfResult(r) == CHOOSE h \in SeqToSet(hitsAtCall) : h.id = r.id

\* the lower-cased title of a returned result ('' when the hit has none)
LowerTitleOfResult(r) ==
    LET h == HitOfResult(r)
    IN  IF h.title = Undefined THEN <<>> ELSE toLowerCase(h.title)

ResultIds == [i \in 1..Len(diverseResults) |-> diverseResults[i].id]

ResultScores == [i \in 1..Len(diverseResults) |-> diverseResults[i].score]

IsSortedDesc(hits) ==
    \A i, j \in 1..Len(hits) : i < j => hits[i].score >= hits[j].score

\* C1: any two distinct results returned by postProcessResults have
\* lower-cased titles whose word-set Jaccard similarity is at most
\* diversityThreshold.
C1_DiversityInvariant ==
    rankPc = "returned" =>
        \A i, j \in 1..Len(diverseResults) :
            i # j =>
                ~ExceedsThreshold(
                    calculateStringSimilarity(
                        LowerTitleOfResult(diverseResults[i]),
                        LowerTitleOfResult(diverseResults[j])),
                    rankOptions.diversityThreshold)

\* a call that returned two results after rejecting a near-duplicate
C1_Witness ==
    /\ rankPc = "returned"
    /\ Len(diverseResults) >= 2
    /\ Len(diverseResults) < Len(hitsAtCall)
    /\ Len(diverseResults) < rankOptions.targetCount

\* C2: whatever the order of the incoming hits, the returned results are in
\* non-increasing order of their formatted scores.
C2_RankingInvariant ==
    rankPc = "returned" =>
        \A i, j \in 1..Len(diverseResults) :
            i < j => diverseResults[i].score >= diverseResults[j].score

\* a call on hits that came in unsorted and returned three results
C2_Witness ==
    /\ rankPc = "returned"
    /\ ~IsSortedDesc(hitsAtCall)
    /\ Len(diverseResults) = 3

\* the scenario of C3: the three hits, targetCount 3, diversityThreshold 0.8
C3_Scenario ==
    /\ rankPc = "returned"
    /\ hitsAtCall =
         << [id |-> 1, score |-> 90000, title |-> T_FedRaisesRates],
            [id |-> 2, score |-> 85000, title |-> T_FedRaisesInterestRates],
            [id |-> 3, score |-> 80000, title |-> T_StockMarketFalls] >>
    /\ rankOptions.targetCount = 3
    /\ rankOptions.diversityThreshold = 800

\* C3 as stated: the scenario returns exactly the 0.9 hit and the 0.8 hit,
\* the 0.85 hit being rejected as a near-duplicate.
C3_AsClaimed == C3_Scenario => ResultIds = <<1, 3>>

\* C3 amended: the scenario returns all three hits, in the order 0.9, 0.85,
\* 0.8; the 0.85 hit is not rejected, because the Jaccard similarity of
\* "fed raises rates" and "fed raises interest rates" is 3/4, not above 0.8.
C3_ScenarioReturnsAllThree ==
    C3_Scenario =>
        /\ ResultIds = <<1, 2, 3>>
        /\ ResultScores = <<9000, 8500, 8000>>
        /\ calculateStringSimilarity(toLowerCase(T_FedRaisesRates),
                                     toLowerCase(T_FedRaisesInterestRates))
               = <<3, 4>>

\* the scenario of C3 has run
C3_Witness == C3_Scenario /\ Len(diverseResults) = 3

\* what the call would return were targetCount no limit
ResultsWithoutLimit ==
    postProcessResults(hitsAtCall,
                       [rankOptions EXCEPT !.targetCount = Len(hitsAtCall)])

FirstOf(q, n) == SubSeq(q, 1, IF n < Len(q) THEN n ELSE Len(q))

\* C11: postProcessResults returns at most targetCount results (targetCount
\* a count >= 0), returns the empty list for an empty or missing hits list
\* and for targetCount = 0, and stops accepting once targetCount results
\* are accepted: it returns the first targetCount of the results it would
\* accept without the limit.
C11_AtMostTargetCount ==
    rankPc = "returned" =>
        /\ Len(diverseResults) <= rankOptions.targetCount
        /\ hitsAtCall \in {<<>>, MissingHits} => diverseResults = <<>>
        /\ rankOptions.targetCount = 0 => diverseResults = <<>>
        /\ diverseResults = FirstOf(ResultsWithoutLimit, rankOptions.targetCount)

\* a call that stopped at targetCount = 2 with a third acceptable hit left
C11_Witness ==
    /\ rankPc = "returned"
    /\ rankOptions.targetCount = 2
    /\ Len(diverseResults) = 2
    /\ Len(ResultsWithoutLimit) = 3

\* result.payload?.title?.toLowerCase() || '' of a hit, as the claims state it
NormalisedTitle(h) == IF h.title = Undefined THEN <<>> ELSE toLowerCase(h.title)

\* two different hits of the call with the same normalised title
SameTitleHits ==
    { pair \in SeqToSet(hitsAtCall) \X SeqToSet(hitsAtCall) :
        /\ pair[1].id # pair[2].id
        /\ NormalisedTitle(pair[1]) = NormalisedTitle(pair[2]) }

AtMostOneOfEach ==
    \A pair \in SameTitleHits :
        ~({pair[1].id, pair[2].id} \subseteq SeqToSet(ResultIds))

\* C12 as stated: for every diversityThreshold the search API can pass
\* (parseFloat(...) || 0.8, so any number but 0), at most one of two hits
\* with the same normalised title is returned.
C12_AsClaimed ==
    (rankPc = "returned" /\ rankOptions.diversityThreshold # 0)
        => AtMostOneOfEach

\* C12, amended: for every diversityThreshold below 1.0 (the default 0.8
\* included) at most one of two hits with the same normalised title is
\* returned; at 1.0 and above the test "similarity > threshold" never
\* rejects, and both are returned when targetCount allows.
C12_DedupBelowOne ==
    rankPc = "returned" =>
        /\ rankOptions.diversityThreshold < ThresholdScale => AtMostOneOfEach
        /\ rankOptions.diversityThreshold >= ThresholdScale
              => Len(diverseResults) =
                   (IF hitsAtCall = MissingHits THEN 0
                    ELSE IF Len(hitsAtCall) < rankOptions.targetCount
                         THEN Len(hitsAtCall) ELSE rankOptions.targetCount)

\* a call at the default threshold that dropped a hit with the title of
\* another one, differing in case only
C12_Witness ==
    /\ rankPc = "returned"
    /\ rankOptions.diversityThreshold = 800
    /\ SameTitleHits # {}
    /\ \E pair \in SameTitleHits : pair[1].title # pair[2].title
    /\ Len(diverseResults) < rankOptions.targetCount

\* C13 as stated: after the call the caller's hits array holds the same
\* hits in the same order as before it.
C13_AsClaimed == rankPc = "returned" => results = hitsAtCall

-----------------------------------------------------------------------------
(* Properties of the context manager.                                       *)

\* the token estimate the claims state: ceil(len(content) / 4)
CeilQuarter(n) == IF n % 4 = 0 THEN n \div 4 ELSE n \div 4 + 1

RECURSIVE SumEstimatedTokens(_)
SumEstimatedTokens(messages) ==
    IF messages = <<>> THEN 0
    ELSE CeilQuarter(Len(Head(messages).content))
         + SumEstimatedTokens(Tail(messages))

\* the last n messages of a list
Suffix(messages, n) == SubSeq(messages, Len(messages) - n + 1, Len(messages))

\* C4: the estimated tokens of the returned messages sum to at most the
\* budget, and totalTokens is that sum.
C4_TokenBudget ==
    ctxPc = "returned" =>
        /\ SumEstimatedTokens(ctxResult.messages) <= ctxMaxTokens
        /\ ctxResult.totalTokens = SumEstimatedTokens(ctxResult.messages)

\* a call that had to drop messages and still kept some
C4_Witness ==
    /\ ctxPc = "returned"
    /\ ctxResult.trimmedCount > 0
    /\ Len(ctxResult.messages) >= 2
    /\ ctxResult.totalTokens = ctxMaxTokens

\* C5: the returned messages are the longest suffix of the history whose
\* estimated tokens fit the budget, in the original order; trimmedCount is
\* the number of older messages dropped; the input list is not modified.
C5_LongestFittingSuffix ==
    ctxPc = "returned" =>
        LET n    == Len(ctxAtCall)
            kept == Len(ctxResult.messages)
        IN  /\ kept <= n
            /\ ctxResult.messages = Suffix(ctxAtCall, kept)
            /\ SumEstimatedTokens(Suffix(ctxAtCall, kept)) <= ctxMaxTokens
            /\ \A longer \in (kept + 1)..n :
                   SumEstimatedTokens(Suffix(ctxAtCall, longer)) > ctxMaxTokens
            /\ ctxResult.trimmedCount = n - kept
            /\ ctxMessages = ctxAtCall

\* a call in which an older message would have fitted after the first one
\* that did not, and was still dropped
C5_Witness ==
    /\ ctxPc = "returned"
    /\ ctxResult.trimmedCount >= 2
    /\ Len(ctxResult.messages) >= 1
    /\ ctxResult.totalTokens
          + CeilQuarter(Len(ctxAtCall[1].content)) <= ctxMaxTokens

-----------------------------------------------------------------------------
(* Properties of the context-need gate.                                     *)

\* the text contains one of the fixed information keywords
ContainsKeyword(text) ==
    \E kw \in SeqToSet(informationKeywords) : Includes(toLowerCase(text), kw)

\* the history positions of the user-role turns, oldest first
UserTurnPositions(history) == { i \in 1..Len(history) : history[i].role = "user" }

\* position i holds one of the last 3 user-role turns of the history
AmongLastThreeUserTurns(history, i) ==
    /\ i \in UserTurnPositions(history)
    /\ Cardinality({ j \in UserTurnPositions(history) : j > i }) < 3

\* C7 as stated: true exactly when the message has a keyword or matches a
\* pattern, or one of the last 3 user-role turns of the history (assistant
\* turns not counted towards the 3) has a keyword.
C7_AsClaimed ==
    intentPc = "returned" =>
        ( needsRAGContext <=>
            \/ ContainsKeyword(intentMessage)
            \/ HasQuestionPattern(intentMessage)
            \/ \E i \in 1..Len(intentHistory) :
                  /\ AmongLastThreeUserTurns(intentHistory, i)
                  /\ ContainsKeyword(intentHistory[i].content) )

\* C7 amended: true exactly when the message has a keyword or matches a
\* pattern, or one of the last 3 messages of the history, of either role, is
\* a user-role turn that has a keyword (assistant turns count towards the 3).
C7_LastThreeMessages ==
    intentPc = "returned" =>
        ( needsRAGContext <=>
            \/ ContainsKeyword(intentMessage)
            \/ HasQuestionPattern(intentMessage)
            \/ \E i \in 1..Len(intentHistory) :
                  /\ i > Len(intentHistory) - 3
                  /\ intentHistory[i].role = "user"
                  /\ ContainsKeyword(intentHistory[i].content) )

\* the gate answered false although one of the last 3 user-role turns has a
\* keyword: that turn is not among the last 3 messages
C7_Witness ==
    /\ intentPc = "returned"
    /\ ~needsRAGContext
    /\ \E i \in 1..Len(intentHistory) :
          /\ AmongLastThreeUserTurns(intentHistory, i)
          /\ ContainsKeyword(intentHistory[i].content)

\* the two scenarios of the specification, on an empty history
C7_Scenarios ==
    (intentPc = "returned" /\ intentHistory = <<>>) =>
        /\ intentMessage = M_HowAreYouToday => ~needsRAGContext
        /\ intentMessage = M_WhatIsLatestNewsOnAI => needsRAGContext

-----------------------------------------------------------------------------
(* Properties of the filter builder.                                        *)

\* the dimensions populated in the filters: a non-empty list of sources or
\* of categories, a date bound, a content type
SourcesPopulated == filters.given /\ IsArray(filters.sources) /\ filters.sources.items # <<>>

CategoriesPopulated ==
    filters.given /\ IsArray(filters.categories) /\ filters.categories.items # <<>>

DateRangePopulated ==
    filters.given /\ (filters.dateFrom \notin {NotSet, ""} \/ filters.dateTo \notin {NotSet, ""})

ContentTypePopulated == filters.given /\ filters.contentType \notin {NotSet, ""}

PopulatedCount ==
    (IF SourcesPopulated THEN 1 ELSE 0) + (IF CategoriesPopulated THEN 1 ELSE 0)
    + (IF DateRangePopulated THEN 1 ELSE 0) + (IF ContentTypePopulated THEN 1 ELSE 0)

\* the clauses of the filter returned (none when it is null)
ReturnedClauses == IF qdrantFilters = <<>> THEN <<>> ELSE qdrantFilters[1].must

\* C14 as stated: buildQdrantFilters returns null whenever no dimension is
\* populated (filters missing, empty, with unknown keys only, or with empty
\* source or category lists), and a filter it returns has clauses, none of
\* them a match-any over an empty list.
C14_AsClaimed ==
    filterPc = "returned" =>
        /\ PopulatedCount = 0 => qdrantFilters = <<>>
        /\ qdrantFilters # <<>> =>
              /\ ReturnedClauses # <<>>
              /\ \A i \in 1..Len(ReturnedClauses) :
                    ReturnedClauses[i].kind = "any" => ReturnedClauses[i].any # <<>>

\* the clauses C15 states, one per populated dimension
ClausesAsClaimed ==
    (IF SourcesPopulated THEN <<MatchAny("source", filters.sources.items)>> ELSE <<>>)
    \o (IF CategoriesPopulated
        THEN <<MatchAny("category", filters.categories.items)>> ELSE <<>>)
    \o (IF DateRangePopulated
        THEN <<Range("published_date",
                     IF filters.dateFrom = "" THEN NotSet ELSE filters.dateFrom,
                     IF filters.dateTo = "" THEN NotSet ELSE filters.dateTo)>>
        ELSE <<>>)
    \o (IF ContentTypePopulated
        THEN <<MatchValue("type", filters.contentType)>> ELSE <<>>)

\* C15 as stated: the filter holds exactly one must clause per populated
\* dimension and none for the others: match-any over the given list for
\* sources and categories, one range clause with gte and/or lte for the
\* dates, an exact-value clause for the content type; as many clauses as
\* populated dimensions.
C15_AsClaimed ==
    filterPc = "returned" =>
        /\ Len(ReturnedClauses) = PopulatedCount
        /\ ReturnedClauses = ClausesAsClaimed

-----------------------------------------------------------------------------
(* Properties of the chunker.                                               *)

\* the chunks of one type that chunkArticle returned
ChunksOfType(type) == SelectSeq(chunks, LAMBDA c : c.type = type)

\* a non-empty end of text a is a beginning of text b
SharesOverlap(a, b) ==
    \E n \in 1..(IF Len(a) < Len(b) THEN Len(a) ELSE Len(b)) :
        SubSeq(a, Len(a) - n + 1, Len(a)) = SubSeq(b, 1, n)

\* chunkArticle has returned for the scenario: the article "AI News" with
\* about 850 characters in three paragraphs, chunkSize 800, chunkOverlap 200
ScenarioChunked ==
    /\ chunkPc = "returned"
    /\ article \in ScenarioArticles
    /\ preprocessor.chunkSize = DefaultChunkSize
    /\ preprocessor.chunkOverlap = DefaultChunkOverlap

\* C16 as stated: the scenario yields one title chunk and at least two
\* content chunks, every content chunk has a charCount of at most 800 plus
\* a small tolerance (a twentieth of the chunk size here), and consecutive
\* content chunks share a non-empty overlap.
C16_AsClaimed ==
    ScenarioChunked =>
        LET content == ChunksOfType("content")
        IN  /\ Len(ChunksOfType("title")) = 1
            /\ Len(content) >= 2
            /\ \A k \in 1..Len(content) :
                   content[k].charCount
                       <= preprocessor.chunkSize + preprocessor.chunkSize \div 20
            /\ \A k \in 1..(Len(content) - 1) :
                   SharesOverlap(content[k].text, content[k + 1].text)

\* startIndex grows strictly along the sequence q
StartIndexIncreasing(q) ==
    \A k \in 1..(Len(q) - 1) : q[k].startIndex < q[k + 1].startIndex

\* C17 as stated: in the chunks chunkArticle returns, and in the pieces
\* chunkByParagraphs returns for a text of several paragraphs, startIndex is
\* strictly increasing across the content chunks; every chunk's charCount is
\* the length of its text; chunkId starts at 0 and never decreases.
C17_AsClaimed ==
    /\ chunkPc = "returned" =>
          /\ StartIndexIncreasing(ChunksOfType("content"))
          /\ \A k \in 1..Len(chunks) : chunks[k].charCount = Len(chunks[k].text)
          /\ chunks # <<>> => chunks[1].chunkId = 0
          /\ \A k \in 1..(Len(chunks) - 1) : chunks[k].chunkId <= chunks[k + 1].chunkId
    /\ chunkPc = "paragraphs" => StartIndexIncreasing(contentChunks)

-----------------------------------------------------------------------------
(* Properties of the query normaliser.                                      *)

\* a query that is lower-case and cleaned already: trimmed, single spaces
\* as its only whitespace, and no character the normaliser removes
IsCleanedQuery(q) ==
    /\ q = toLowerCase(q)
    /\ q # <<>> => ~IsSpace(q[1]) /\ ~IsSpace(q[Len(q)])
    /\ \A i \in 1..Len(q) :
          /\ IsQueryChar(q[i])
          /\ IsSpace(q[i]) => q[i] = " " /\ (i = 1 \/ ~IsSpace(q[i - 1]))

\* C18: for a query that is lower-case and cleaned already, running
\* preprocessQuery on its own output returns that output again:
\* preprocessQuery(preprocessQuery(q)) = preprocessQuery(q).
C18_Idempotent ==
    (normRuns >= 2 /\ IsCleanedQuery(query)) => processedQuery = processedOnce

\* a cleaned query the first run changed (an abbreviation expanded), run twice
C18_Witness ==
    /\ normRuns = 2
    /\ IsCleanedQuery(query)
    /\ processedOnce # query
    /\ processedQuery = processedOnce

\* C30: every key term extractKeyTerms returns is a whitespace-delimited
\* word of the processed query, hence a substring of it, so preprocessQuery
\* returns exactly the cleaned, abbreviation-expanded query for every input:
\* no key term is appended and none is duplicated.
C30_NothingAppended ==
    normRuns >= 1 =>
        LET processed == CleanQuery(query)
            keyTerms == extractKeyTerms(processed)
        IN  /\ \A k \in 1..Len(keyTerms) :
                  /\ keyTerms[k] \in SeqToSet(SplitWords(processed))
                  /\ Includes(processed, keyTerms[k])
            /\ processedOnce = processed

\* a short query with key terms that the first run changed
C30_Witness ==
    /\ normRuns = 1
    /\ extractKeyTerms(CleanQuery(query)) # <<>>
    /\ Len(CleanQuery(query)) < enhanceBelowLength
    /\ processedOnce # query

-----------------------------------------------------------------------------
(* Properties of the query enhancer.                                        *)

\* C25: enhanceQueryWithContext returns the message itself whenever the
\* message matches no follow-up pattern, and always when the message starts
\* with "Tell me about:" or the history is empty.
C25_UnchangedUnlessFollowUp ==
    (/\ enhancePc = "returned"
     /\ \/ ~MatchesFollowUpPattern(enhanceMessage)
        \/ StartsWith(enhanceMessage, articleQueryPrefix)
        \/ enhanceHistory = <<>>)
        => enhancedQuery = enhanceMessage

\* a message that matches no pattern was enhanced against a history with
\* user messages and an article query, and came back as it was
C25_Witness ==
    /\ enhancePc = "returned"
    /\ ~MatchesFollowUpPattern(enhanceMessage)
    /\ ~StartsWith(enhanceMessage, articleQueryPrefix)
    /\ \E i \in 1..Len(enhanceHistory) :
           /\ enhanceHistory[i].role = "user"
           /\ StartsWith(enhanceHistory[i].content, articleQueryPrefix)
    /\ enhancedQuery = enhanceMessage

\* the contrast: a follow-up question was enhanced
EnhancedFollowUp ==
    /\ enhancePc = "returned"
    /\ MatchesFollowUpPattern(enhanceMessage)
    /\ enhancedQuery # enhanceMessage

-----------------------------------------------------------------------------
(* Properties of the snippet generator.                                     *)

\* the distinct terms of the query
SnippetTerms == SeqToSet(SplitWords(toLowerCase(snippetQuery)))

\* the positions, counted from 0, at which a term occurs in the content
Occurrences(term) ==
    { i - 1 : i \in { j \in 1..Len(snippetContent) :
                          OccursAt(toLowerCase(snippetContent), term, j) } }

\* the number of distinct terms within the window around a position
DistinctTermsAround(position) ==
    Cardinality({ t \in SnippetTerms :
        Includes(Substring(toLowerCase(snippetContent),
                           Max(0, position - snippetWindow),
                           position + snippetWindow), t) })

\* C24: the excerpt starts at the window of an occurrence of a query term
\* around which the number of distinct query terms is the largest over every
\* occurrence of every term; the anchor is 0 when no query term occurs.
C24_AsClaimed ==
    snippetPc = "returned" =>
        IF \A t \in SnippetTerms : Occurrences(t) = {}
        THEN snippetAnchor = 0
        ELSE \E t \in SnippetTerms : \E p \in Occurrences(t) :
                /\ snippetAnchor = Max(0, p - snippetWindow)
                /\ \A u \in SnippetTerms : \A q \in Occurrences(u) :
                       DistinctTermsAround(q) <= DistinctTermsAround(p)

\* what the code does: only the first occurrence of each term is a candidate
C24_FirstOccurrencesOnly ==
    snippetPc = "returned" =>
        IF \A t \in SnippetTerms : Occurrences(t) = {}
        THEN snippetAnchor = 0
        ELSE \E t \in SnippetTerms :
                /\ Occurrences(t) # {}
                /\ \A q \in Occurrences(t) :
                       snippetAnchor <= Max(0, q - snippetWindow)

-----------------------------------------------------------------------------
(* Properties of the search and its cache.                                  *)

\* two calls with the same query, topK, minScore and filters
SameKeyFields(a, b) ==
    /\ a.query = b.query
    /\ a.topK = b.topK
    /\ a.minScore = b.minScore
    /\ a.filters = b.filters

ZeroHitNeverStored ==
    \A key \in DOMAIN searchCache : Len(searchCache[key].value.results) > 0

\* Redis answers the lookup of a call while the cache holds the result of a
\* call with the same query, topK, minScore and filters
LookupOfStoredSearch ==
    /\ search.pc = "getCachedResult"
    /\ search'.lookup \in {"hit", "miss"}
    /\ \E key \in DOMAIN searchCache :
           SameKeyFields(searchCache[key].storedBy, search.options)

\* the call returns that stored result and computes nothing
AnsweredWithStoredResult ==
    /\ search'.pc = "returned"
    /\ ~search'.computed
    /\ \E key \in DOMAIN searchCache :
           /\ SameKeyFields(searchCache[key].storedBy, search.options)
           /\ search'.result.results = searchCache[key].value.results

\* C26: the cache key depends on query, topK, minScore and filters only: a
\* search whose lookup Redis answers gets the stored result of an earlier
\* search with these four, whatever their diversityThreshold and
\* includeMetadata; and no result without hits is ever in the cache.
C26_KeyedByFourFields ==
    /\ []ZeroHitNeverStored
    /\ [][LookupOfStoredSearch => AnsweredWithStoredResult]_vars

\* a search was answered from the cache with the result of a search of
\* another diversityThreshold or includeMetadata, which is not the result
\* its own options give
C26_Witness ==
    /\ search.pc = "returned"
    /\ search.lookup = "hit"
    /\ SameKeyFields(search.answeredBy, search.options)
    /\ \/ search.answeredBy.diversityThreshold # search.options.diversityThreshold
       \/ search.answeredBy.includeMetadata # search.options.includeMetadata
    /\ search.result.results # ProcessedResultsOf(search.options)

\* C27: a result computed on a cache miss is returned with cached = false;
\* cached = true is only on results read from the cache.
C27_AsClaimed ==
    (search.pc = "returned" /\ search.result.cached) => search.lookup = "hit"

\* what the code does: a computed result is returned marked as cached
\* exactly when it was handed to cacheResult
C27_MarkedWhenStored ==
    (search.pc = "returned" /\ search.computed) =>
        (search.result.cached <=>
            ShouldCache(search.options, search.result.results))

-----------------------------------------------------------------------------
(* Properties of the embedding call.                                        *)

\* the POSTs made so far: the failed ones and the one that succeeded
Attempts == Len(embed.errors) + (IF embed.pc = "embedded" THEN 1 ELSE 0)

\* the call has raised its failure
Raised == embed.pc \in {"threw", "generate", "responded"}

-----------------------------------------------------------------------------
(* Properties of the embedding pipeline.                                    *)

\* C28: whenever runPipeline has finished successfully, resumed from a
\* checkpoint or not, every chunk of the chunk file is in the vector store.
C28_AsClaimed ==
    pipeline.pc = "completed" => vectorStore = AllChunks

\* what the code does: a successful run has inserted the chunks from its
\* resume point on
C28_FromResumePoint ==
    pipeline.pc = "completed" =>
        { c \in AllChunks : c > pipeline.startIndex } \subseteq vectorStore

-----------------------------------------------------------------------------
(* Properties of the daily refresh.                                         *)

\* C22: the stored article list never has more than maxArticles entries,
\* after any sequence of refresh runs.
C22_AsClaimed == Len(articlesFile) <= maxArticles

\* what the code does: one run adds at most maxArticles articles, and from
\* the removal step of a run on no article is past the retention period
C22_PerRunAndRetention ==
    /\ refresh.totalScraped <= maxArticles
    /\ Len(articlesFile) <= maxArticles * refreshRuns
    /\ refresh.pc \in {"scrapeFreshNews", "updateVectorDatabase"} =>
           \A k \in 1..Len(articlesFile) : articlesFile[k] > today - retentionDays

-----------------------------------------------------------------------------
(* Properties of the chat route.                                            *)

\* the request carried a message that passes the validation
WellFormed(r) ==
    /\ rq[r].pc # "idle"
    /\ ValidateMessage(ChatText(rq[r].message)) = "none"

\* the positions of the stored history that hold the turn of request r
StoredTurns(r, role) ==
    { i \in 1..Len(messagesList) :
        messagesList[i].req = r /\ messagesList[i].role = role }

HasText(key) == Len(Trim(ChatText(key))) > 0

\* C6 as stated: the stored history never contains the user turn of a request
\* without its assistant turn.
C6_AsClaimed ==
    \A r \in Requests :
        StoredTurns(r, "user") # {} => StoredTurns(r, "assistant") # {}

\* C6, amended: the user turn is appended before the pipeline runs and only
\* the assistant turn is appended after the pipeline produced its response:
\* no pipeline step and no response exists before the user turn was pushed,
\* an assistant turn is pushed only after the response was made and after
\* the user turn, and a stored assistant turn carries that response and
\* follows the stored user turn of its request.
C6_UserTurnBeforePipeline ==
    \A r \in Requests :
        /\ (rq[r].steps # <<>> \/ rq[r].response.made \/ rq[r].pc = "pm_lRange")
              => "user" \in rq[r].appended
        /\ "assistant" \in rq[r].appended
              => rq[r].response.made /\ "user" \in rq[r].appended
        /\ \A i \in StoredTurns(r, "assistant") :
              /\ "assistant" \in rq[r].appended
              /\ messagesList[i].content = rq[r].response.content
              /\ messagesList[i].metadata = rq[r].response.metadata
              /\ \A j \in StoredTurns(r, "user") : j < i
        /\ \A i \in StoredTurns(r, "user") :
              /\ "user" \in rq[r].appended
              /\ ChatText(messagesList[i].content) = Trim(ChatText(rq[r].message))

\* a request has ended with an error while its user turn stays in the
\* stored history without an assistant turn, and another one has its user
\* turn stored while its pipeline is still generating
C6_Witness ==
    \E r, q \in Requests :
        /\ rq[r].pc = "done" /\ ~rq[r].reply.success
        /\ StoredTurns(r, "user") # {} /\ StoredTurns(r, "assistant") = {}
        /\ rq[q].pc = "gen" /\ ~rq[q].response.made
        /\ StoredTurns(q, "user") # {} /\ StoredTurns(q, "assistant") = {}

Degraded == {"pipeline_failed", "no_context"}

Genuine == {"genuine_rag", "general"}

ClaimedRank(step) ==
    CASE step = "normalize" -> 1
      [] step = "embed" -> 2
      [] step = "filter-build" -> 3
      [] step = "vector-search" -> 4
      [] step = "rank" -> 5
      [] step = "assemble" -> 6
      [] step = "generate" -> 7

\* the order with the conversation-context budgeting first
AssembleFirstRank(step) ==
    CASE step = "assemble" -> 1
      [] step = "normalize" -> 2
      [] step = "embed" -> 3
      [] step = "filter-build" -> 4
      [] step = "vector-search" -> 5
      [] step = "rank" -> 6
      [] step = "generate" -> 7

\* every step started has ended before the next one starts
OneAtATime(steps) ==
    \A i \in 1..Len(steps) :
        IF i % 2 = 1
        THEN steps[i][2] = "start"
        ELSE steps[i] = <<steps[i - 1][1], "end">>

StartedSteps(steps) == { i \in 1..Len(steps) : steps[i][2] = "start" }

C10_InClaimedOrder(steps) ==
    \A i, j \in StartedSteps(steps) :
        i < j => ClaimedRank(steps[i][1]) < ClaimedRank(steps[j][1])

C10_InAssembleFirstOrder(steps) ==
    \A i, j \in StartedSteps(steps) :
        i < j => AssembleFirstRank(steps[i][1]) < AssembleFirstRank(steps[j][1])

\* C10 as stated: the steps of a request run one at a time in the order
\* normalize, embed, filter-build, vector-search, rank, assemble, generate.
C10_AsClaimed ==
    \A r \in Requests :
        OneAtATime(rq[r].steps) /\ C10_InClaimedOrder(rq[r].steps)

\* C10, amended: the steps of a request run one at a time in the order
\* assemble (conversation-context budgeting), normalize, embed,
\* filter-build, vector-search, rank, generate: the budgeting is the first
\* step, not the one before generation, and generation starts only after
\* it and after whatever retrieval steps ran.
C10_AssembleFirst ==
    \A r \in Requests :
        /\ OneAtATime(rq[r].steps)
        /\ C10_InAssembleFirstOrder(rq[r].steps)
        /\ rq[r].steps # <<>> => rq[r].steps[1] = <<"assemble", "start">>
        /\ rq[r].pc = "gen"
              => rq[r].steps[Len(rq[r].steps)] = <<"generate", "start">>

\* a request ran all seven steps
C10_Witness ==
    \E r \in Requests :
        /\ rq[r].outcome = "genuine_rag"
        /\ { rq[r].steps[i][1] : i \in StartedSteps(rq[r].steps) } =
              {"assemble", "normalize", "embed", "filter-build", "vector-search",
               "rank", "generate"}
        /\ Len(rq[r].steps) = 14

-----------------------------------------------------------------------------
(* Properties of the session store under concurrent requests.               *)

\* deleteSession has completed
SessionDeleted == deleteRq.pc = "done" /\ deleteRq.reply.statusCode = 200

\* neither the session hash nor the message list exists
SessionGone == ~sessionHash.exists /\ messagesList = <<>>

\* the step is the hSet of a createSession
CreateSessionStep ==
    \E r \in Requests : rq[r].pc = "cs_hSet" /\ rq'[r].pc # "cs_hSet"

\* C21: once deleteSession has completed, the session hash and the message
\* list stay absent until a createSession, whatever chat turn was in flight
\* during the delete.
C21_AsClaimed ==
    [][(SessionDeleted /\ SessionGone /\ ~CreateSessionStep) => SessionGone']_vars

\* what the code does give: right after the transaction both keys are gone
C21_GoneAtCompletion ==
    [][(deleteRq.pc = "multi" /\ SessionDeleted') => SessionGone']_vars

\* the calls of addMessage a request has completed
InAddMessage(r) ==
    rq[r].pc \in {"am_rPush", "am_lLen", "am_lTrim", "am_hIncrBy", "am_touch", "am_expire"}

CompletedAddMessages(r) ==
    Cardinality({ role \in rq[r].appended : ~(InAddMessage(r) /\ rq[r].phase = role) })

\* the calls completed by the requests 1..n
RECURSIVE CompletedUpTo(_)
CompletedUpTo(n) ==
    IF n = 0 THEN 0 ELSE CompletedAddMessages(n) + CompletedUpTo(n - 1)

\* no call of addMessage is under way and no Redis command was rejected
StoreQuiet ==
    \A r \in Requests : ~InAddMessage(r) /\ "session" \notin rq[r].failed

\* C29: whenever no addMessage call is under way, the messageCount of the
\* session is the number of addMessage calls completed on it, under any
\* interleaving of the chat requests, two first requests that both create
\* the session included.
C29_AsClaimed ==
    (StoreQuiet /\ sessionHash.exists) =>
        sessionHash.messageCount = CompletedUpTo(NumRequests)

-----------------------------------------------------------------------------
(* Properties of the session history.                                       *)

\* the messages of the client's first k turns as the history returns them:
\* what the client sent, trimmed, then the reply it received, turn by turn
TurnMessages(k) ==
    [i \in 1..(2 * k) |->
        LET r == client.turns[(i + 1) \div 2]
        IN  IF i % 2 = 1
            THEN [role |-> "user", content |-> Trim(ChatText(rq[r].message))]
            ELSE [role |-> "assistant", content |-> ChatText(rq[r].reply.message)]]

\* the client's first k turns were all answered with success
TurnsSucceeded(k) == \A j \in 1..k : rq[client.turns[j]].reply.success

\* the length the stored history is limited to, as a default history
\* request sees it
HistoryCap ==
    IF maxConversationHistory < defaultHistoryLimit
    THEN maxConversationHistory ELSE defaultHistoryLimit

\* C19: after k sequential successful chat turns on one session the session
\* holds messageCount 2k, and the history read back with the default limit
\* and offset is the 2k messages of those turns in order, each user message
\* followed by its assistant reply, limited to the most recent ones (50 by
\* default; maxConversationHistory in the model), with total_messages 2k.
C19_HistoryAfterTurns ==
    /\ (client.pc = "ready" /\ TurnsSucceeded(Len(client.turns))) =>
          /\ sessionHash.messageCount = 2 * Len(client.turns)
          /\ Len(messagesList) =
                IF 2 * Len(client.turns) < maxConversationHistory
                THEN 2 * Len(client.turns) ELSE maxConversationHistory
    /\ ( /\ client.read.reply.sent
         /\ client.read.reply.statusCode = 200
         /\ client.read.limit = defaultHistoryLimit
         /\ client.read.offset = 0
         /\ TurnsSucceeded(client.read.after) ) =>
          /\ client.read.reply.messages
                = SliceLast(TurnMessages(client.read.after), HistoryCap)
          /\ client.read.reply.total_messages = 2 * client.read.after

\* the history read after two successful turns, the oldest message trimmed
C19_Witness ==
    /\ client.read.reply.sent
    /\ client.read.reply.statusCode = 200
    /\ client.read.limit = defaultHistoryLimit
    /\ client.read.offset = 0
    /\ client.read.after = 2
    /\ TurnsSucceeded(2)
    /\ Len(client.read.reply.messages) = maxConversationHistory
    /\ Len(client.read.reply.messages) < 2 * client.read.after
    /\ client.read.reply.total_messages = 4

\* the messages pushed to the list so far
PushedCount ==
    Cardinality({ <<r, role>> \in Requests \X {"user", "assistant"} :
                     role \in rq[r].appended })

\* no addMessage call is between its rPush and the end of its trimming, and
\* no Redis command was rejected
AddMessageCallsOver ==
    \A r \in Requests :
        /\ rq[r].pc \notin {"am_lLen", "am_lTrim"}
        /\ "session" \notin rq[r].failed

\* C20 as stated: after any sequence of addMessage calls on one session,
\* calls of concurrent requests included, the list holds the most recent
\* min(n, maxConversationHistory) of the n messages pushed: never more than
\* maxConversationHistory, never fewer than min(n, maxConversationHistory).
C20_AsClaimed ==
    AddMessageCallsOver =>
        Len(messagesList) =
            IF PushedCount < maxConversationHistory
            THEN PushedCount ELSE maxConversationHistory

=============================================================================
